---- MODULE Spec2Model ----
(***************************************************************************)
(* mrecordlog: a multiplexed write-ahead log.  This module models the      *)
(* orchestrator (src/src/multi_record_log.rs), the in-memory queues        *)
(* (src/src/mem/queue.rs, src/src/mem/queues.rs) and the rolling directory *)
(* of log files (src/src/rolling/directory.rs, file_number.rs).            *)
(*                                                                         *)
(* Payload bytes are modelled exactly (the buffers of mem/queue.rs are     *)
(* byte containers).  The log files are modelled at the granularity of     *)
(* records: a file holds RecordsPerFile records, one record per slot; the  *)
(* frame and block layout inside a file is not part of this specification. *)
(***************************************************************************)
EXTENDS Integers, Sequences, FiniteSets, TLC

\* ------------------------------------------------------------------------
\* Bounds of the model
\* ------------------------------------------------------------------------
\* number of API calls in a behaviour
MaxOps == 4
\* positions passed by the caller range over 0..MaxPos
MaxPos == 2
\* number of payloads in a batch ranges over 0..MaxBatch
MaxBatch == 2
\* number of records a log file holds (stands for FILE_NUM_BYTES)
RecordsPerFile == 2
\* length of the non-empty payloads the caller appends: two buffer slices, so
\* that one payload is enough for a LongBuffer and ends on a slice boundary
BigLen == 32

\* ------------------------------------------------------------------------
\* Program constants
\* ------------------------------------------------------------------------
\* mem/queue.rs:12 (the cfg(test) value; 64 MiB otherwise)
BUFFER_SLICE_LEN == 16

Queues == {"q1", "q2"}
PayloadLens == {0, BigLen}

\* The payload of length n the caller appends: bytes 1, 2, 3, ... so that a
\* shifted, truncated or overwritten payload differs from the original.
Payload(n) == [i \in 1..n |-> i]
Payloads == {Payload(n) : n \in PayloadLens}
Batches == UNION {[1..k -> Payloads] : k \in 0..MaxBatch}

None == [some |-> FALSE, v |-> 0]
Some(x) == [some |-> TRUE, v |-> x]

\* Result of a fallible computation on a buffer: a value, or a panic
\* (index out of range, arithmetic overflow, failed assertion).
Ok(x) == [ok |-> TRUE, val |-> x]
Panicked == [ok |-> FALSE, val |-> <<>>]

Min(a, b) == IF a < b THEN a ELSE b

\* ------------------------------------------------------------------------
\* mem/queue.rs: LongBuffer
\* ------------------------------------------------------------------------
new_slice == [i \in 1..BUFFER_SLICE_LEN |-> 0]

\* slice[..content.len()].copy_from_slice(content) on a fresh slice
FinalSlice(content) ==
    [i \in 1..BUFFER_SLICE_LEN |-> IF i <= Len(content) THEN content[i] ELSE 0]

\* slice[offset..][..data.len()].copy_from_slice(data)
CopyInto(slice, offset, data) ==
    [i \in 1..Len(slice) |->
        IF i > offset /\ i <= offset + Len(data) THEN data[i - offset] ELSE slice[i]]

\* the loop "while content.len() > BUFFER_SLICE_LEN": the whole slices pushed
RECURSIVE WholeSlices(_)
WholeSlices(content) ==
    IF Len(content) > BUFFER_SLICE_LEN
    THEN <<SubSeq(content, 1, BUFFER_SLICE_LEN)>>
             \o WholeSlices(SubSeq(content, BUFFER_SLICE_LEN + 1, Len(content)))
    ELSE <<>>

\* the value of `content` when that loop exits
RECURSIVE AfterWholeSlices(_)
AfterWholeSlices(content) ==
    IF Len(content) > BUFFER_SLICE_LEN
    THEN AfterWholeSlices(SubSeq(content, BUFFER_SLICE_LEN + 1, Len(content)))
    ELSE content

LongBuffer_new_with_content(content) ==
    [kind |-> "Long",
     slices |-> WholeSlices(content) \o <<FinalSlice(AfterWholeSlices(content))>>,
     start_offset |-> 0,
     len |-> Len(content)]

\* <<slice, offset>>, the slice index counted from 0 as in the source
to_slice_and_offset(long, pos, is_end_slice) ==
    LET p == pos + long.start_offset
        slice == p \div BUFFER_SLICE_LEN
        offset == p % BUFFER_SLICE_LEN
    IN IF (offset = 0 /\ slice > 0) /\ is_end_slice
       THEN <<slice - 1, BUFFER_SLICE_LEN>>
       ELSE <<slice, offset>>

LongBuffer_extend(long, content) ==
    LET so == to_slice_and_offset(long, long.len, TRUE)
        slice == so[1]
        offset == so[2]
        left == BUFFER_SLICE_LEN - offset
        rest == SubSeq(content, left + 1, Len(content))
    IN IF slice + 1 > Len(long.slices)
       THEN Panicked
       ELSE IF BUFFER_SLICE_LEN - offset > Len(content)
       THEN \* happy path: we can just copy to the end
            Ok([long EXCEPT !.slices[slice + 1] = CopyInto(@, offset, content),
                            !.len = @ + Len(content)])
       ELSE \* fill the last slice, push whole slices, push a final slice;
            \* `content` has been advanced when `self.len += content.len()` runs
            Ok([long EXCEPT
                  !.slices = [@ EXCEPT ![slice + 1] =
                                 CopyInto(@, offset, SubSeq(content, 1, left))]
                             \o WholeSlices(rest)
                             \o <<FinalSlice(AfterWholeSlices(rest))>>,
                  !.len = @ + Len(AfterWholeSlices(rest))])

RECURSIVE ConcatSlices(_, _, _)
ConcatSlices(slices, from, to) ==
    IF from > to THEN <<>> ELSE slices[from] \o ConcatSlices(slices, from + 1, to)

\* debug_assert_eq!(end - start, result_buffer.len()); debug is whether debug
\* assertions are compiled in
LongBuffer_checked(expected_len, result_buffer, debug) ==
    IF debug /\ expected_len # Len(result_buffer) THEN Panicked ELSE Ok(result_buffer)

\* get_range, once the two ends s and e of the range are located
LongBuffer_get_range_between(long, start, end, debug, s, e) ==
    IF s[1] = e[1]
    THEN \* start and end in same slice, just subslice
         IF s[1] + 1 > Len(long.slices) \/ s[2] > e[2]
         THEN Panicked
         ELSE Ok(SubSeq(long.slices[s[1] + 1], s[2] + 1, e[2]))
    ELSE IF end < start \/ s[1] + 1 > Len(long.slices) \/ e[1] + 1 > Len(long.slices)
         THEN Panicked
         ELSE LongBuffer_checked(
                  end - start,
                  SubSeq(long.slices[s[1] + 1], s[2] + 1, BUFFER_SLICE_LEN)
                     \o ConcatSlices(long.slices, s[1] + 2, e[1])
                     \o SubSeq(long.slices[e[1] + 1], 1, e[2]),
                  debug)

\* get_range(start..end)
LongBuffer_get_range(long, start, end, debug) ==
    LongBuffer_get_range_between(long, start, end, debug,
                                 to_slice_and_offset(long, start, FALSE),
                                 to_slice_and_offset(long, end, TRUE))

\* pop_front / push_back, `times` times
RECURSIVE Rotate(_, _)
Rotate(slices, times) ==
    IF times = 0 THEN slices ELSE Rotate(Tail(slices) \o <<Head(slices)>>, times - 1)

LongBuffer_truncate_start(long, pos) ==
    LET num_slice_used == to_slice_and_offset(long, long.len, TRUE)[1] + 1
        target_num_slice == (num_slice_used * 9) \div 8
        kept == SubSeq(long.slices, 1, Min(Len(long.slices), target_num_slice))
        so == to_slice_and_offset(long, pos, FALSE)
    IN IF kept = <<>> \/ pos > long.len
       THEN Panicked
       ELSE Ok([long EXCEPT !.slices = Rotate(kept, so[1]),
                            !.start_offset = so[2],
                            !.len = @ - pos])

\* ------------------------------------------------------------------------
\* mem/queue.rs: ShortBuffer (a VecDeque<u8>)
\* ------------------------------------------------------------------------
ShortBuffer_new_with_content(content) == [kind |-> "Short", buffer |-> content]

ShortBuffer_get_range(short, start, end) ==
    IF start > end \/ end > Len(short.buffer)
    THEN Panicked
    ELSE Ok(SubSeq(short.buffer, start + 1, end))

ShortBuffer_truncate_start(short, pos) ==
    IF pos > Len(short.buffer)
    THEN Panicked
    ELSE Ok([short EXCEPT !.buffer = SubSeq(@, pos + 1, Len(@))])

ShortBuffer_extend(short, slice) == [short EXCEPT !.buffer = @ \o slice]

\* ------------------------------------------------------------------------
\* mem/queue.rs: RollingBuffer
\* ------------------------------------------------------------------------
RollingBuffer_new == ShortBuffer_new_with_content(<<>>)

RollingBuffer_len(rb) == IF rb.kind = "Short" THEN Len(rb.buffer) ELSE rb.len

RollingBuffer_clear(rb) == RollingBuffer_new

RollingBuffer_get_range(rb, start, end, debug) ==
    IF rb.kind = "Short"
    THEN ShortBuffer_get_range(rb, start, end)
    ELSE LongBuffer_get_range(rb, start, end, debug)

\* *self = RollingBuffer::Short(ShortBuffer::new_with_content(buffer))
RollingBuffer_into_short(buffer) ==
    IF buffer.ok THEN Ok(ShortBuffer_new_with_content(buffer.val)) ELSE Panicked

RollingBuffer_truncate_start(rb, pos, debug) ==
    IF rb.kind = "Short"
    THEN ShortBuffer_truncate_start(rb, pos)
    ELSE IF rb.len < BUFFER_SLICE_LEN
         THEN RollingBuffer_into_short(LongBuffer_get_range(rb, pos, rb.len, debug))
         ELSE LongBuffer_truncate_start(rb, pos)

RollingBuffer_extend(rb, slice) ==
    IF rb.kind = "Short"
    THEN IF Len(rb.buffer) + Len(slice) < 2 * BUFFER_SLICE_LEN
         THEN Ok(ShortBuffer_extend(rb, slice))
         ELSE LongBuffer_extend(LongBuffer_new_with_content(rb.buffer), slice)
    ELSE LongBuffer_extend(rb, slice)

\* ------------------------------------------------------------------------
\* mem/queue.rs: MemQueue
\* ------------------------------------------------------------------------
\* RecordMeta: [start_offset, file_number], file_number an Option<FileNumber>
\* MemQueue: [concatenated_records, start_position, record_metas]

MemQueue_with_next_position(next_position) ==
    [concatenated_records |-> RollingBuffer_new,
     start_position |-> next_position,
     record_metas |-> <<>>]

MemQueue_new == MemQueue_with_next_position(0)

MemQueue_is_empty(queue) == queue.record_metas = <<>>

\* next_position counted from 0 instead of start_position
MemQueue_next_position_from_zero(queue) == Len(queue.record_metas)

MemQueue_next_position(queue) == queue.start_position + Len(queue.record_metas)

\* append_record with a reference to the file taken for every record, the one
\* of the previous record kept
MemQueue_push_record_cloning(queue, file_number, target_position, extended) ==
    [res |-> "Ok",
     queue |->
        [concatenated_records |-> extended.val,
         start_position |->
            IF queue.start_position = 0 /\ queue.record_metas = <<>>
            THEN target_position
            ELSE queue.start_position,
         record_metas |->
            Append(queue.record_metas,
                   [start_offset |-> RollingBuffer_len(queue.concatenated_records),
                    file_number |-> Some(file_number)])]]

\* MemQueue::append_record once concatenated_records is extended
MemQueue_push_record(queue, file_number, target_position, extended) ==
    IF ~extended.ok
    THEN [res |-> "Panic", queue |-> queue]
    ELSE [res |-> "Ok",
          queue |->
             [concatenated_records |-> extended.val,
              start_position |->
                 IF queue.start_position = 0 /\ queue.record_metas = <<>>
                 THEN target_position
                 ELSE queue.start_position,
              record_metas |->
                 Append(\* the previous record hands over its reference to the file
                        IF queue.record_metas # <<>>
                           /\ queue.record_metas[Len(queue.record_metas)].file_number
                                 = Some(file_number)
                        THEN [queue.record_metas EXCEPT
                                 ![Len(queue.record_metas)].file_number = None]
                        ELSE queue.record_metas,
                        [start_offset |-> RollingBuffer_len(queue.concatenated_records),
                         file_number |-> Some(file_number)])]]

\* [res, queue]: res is "Ok", "Future", "Past" or "Panic"
MemQueue_append_record(queue, file_number, target_position, payload) ==
    IF MemQueue_next_position(queue) # 0
       /\ MemQueue_next_position(queue) # target_position
    THEN [res |-> IF target_position > MemQueue_next_position(queue)
                  THEN "Future"
                  ELSE "Past",
          queue |-> queue]
    ELSE MemQueue_push_record(queue, file_number, target_position,
                              RollingBuffer_extend(queue.concatenated_records, payload))

\* Option<usize>
position_to_idx(queue, position) ==
    IF queue.start_position > position
    THEN Some(0)
    ELSE IF position - queue.start_position >= Len(queue.record_metas)
         THEN None
         ELSE Some(position - queue.start_position)

unwrap_or(opt, default) == IF opt.some THEN opt.v ELSE default

\* std::ops::Bound
Included(x) == [kind |-> "Included", v |-> x]
Excluded(x) == [kind |-> "Excluded", v |-> x]
Unbounded == [kind |-> "Unbounded", v |-> 0]

\* RangeBounds::contains
RangeContains(lo, hi, position) ==
    /\ CASE lo.kind = "Included" -> lo.v <= position
         [] lo.kind = "Excluded" -> lo.v < position
         [] OTHER -> TRUE
    /\ CASE hi.kind = "Included" -> position <= hi.v
         [] hi.kind = "Excluded" -> position < hi.v
         [] OTHER -> TRUE

\* the indices (from 0) the iterator of MemQueue::range visits:
\* (start_idx..len).take_while(position in range)
RECURSIVE TakeWhileInRange(_, _, _, _)
TakeWhileInRange(queue, idx, lo, hi) ==
    IF idx < Len(queue.record_metas)
       /\ RangeContains(lo, hi, queue.start_position + idx)
    THEN <<idx>> \o TakeWhileInRange(queue, idx + 1, lo, hi)
    ELSE <<>>

range_start_idx(queue, lo) ==
    CASE lo.kind = "Included" ->
            unwrap_or(position_to_idx(queue, lo.v), Len(queue.record_metas))
      [] lo.kind = "Excluded" ->
            IF queue.start_position > lo.v
            THEN 0
            ELSE unwrap_or(position_to_idx(queue, lo.v), Len(queue.record_metas)) + 1
      [] OTHER -> 0

\* Record::new(position, payload)
Record_new(position, payload) ==
    IF payload.ok THEN Ok([position |-> position, payload |-> payload.val]) ELSE Panicked

\* range_item with the position counted from 0 instead of start_position
range_item_from_zero(queue, idx, debug) ==
    Record_new(idx,
               RollingBuffer_get_range(
                   queue.concatenated_records,
                   queue.record_metas[idx + 1].start_offset,
                   IF idx + 2 <= Len(queue.record_metas)
                   THEN queue.record_metas[idx + 2].start_offset
                   ELSE RollingBuffer_len(queue.concatenated_records),
                   debug))

\* the item the iterator maps index idx to: Ok([position, payload]) or a panic
range_item(queue, idx, debug) ==
    Record_new(queue.start_position + idx,
               RollingBuffer_get_range(
                   queue.concatenated_records,
                   queue.record_metas[idx + 1].start_offset,
                   IF idx + 2 <= Len(queue.record_metas)
                   THEN queue.record_metas[idx + 2].start_offset
                   ELSE RollingBuffer_len(queue.concatenated_records),
                   debug))

\* the items collected: Ok(sequence of [position, payload]), or a panic when
\* the iteration panics
Collect(items) ==
    IF \A k \in 1..Len(items) : items[k].ok
    THEN Ok([k \in 1..Len(items) |-> items[k].val])
    ELSE Panicked

\* the items of the indices idxs
range_items(queue, idxs, debug) ==
    Collect([k \in 1..Len(idxs) |-> range_item(queue, idxs[k], debug)])

\* MemQueue::range collected
MemQueue_range(queue, lo, hi, debug) ==
    range_items(queue, TakeWhileInRange(queue, range_start_idx(queue, lo), lo, hi),
                debug)

\* MemQueue::truncate when the record at index first_record_to_keep stays,
\* once concatenated_records is truncated
MemQueue_drain(queue, first_record_to_keep, start_offset_to_keep, truncated) ==
    IF (\E i \in first_record_to_keep + 1..Len(queue.record_metas) :
           queue.record_metas[i].start_offset < start_offset_to_keep)
       \/ ~truncated.ok
    THEN Panicked
    ELSE Ok([concatenated_records |-> truncated.val,
             start_position |-> queue.start_position + first_record_to_keep,
             record_metas |->
                [i \in 1..Len(queue.record_metas) - first_record_to_keep |->
                    [queue.record_metas[i + first_record_to_keep] EXCEPT
                        !.start_offset = @ - start_offset_to_keep]]])

\* MemQueue::truncate from the index of the first record to keep
MemQueue_truncate_from(queue, first_opt, debug) ==
    IF ~first_opt.some
    THEN \* clear the queue entirely
         Ok([concatenated_records |-> RollingBuffer_clear(queue.concatenated_records),
             start_position |-> MemQueue_next_position(queue),
             record_metas |-> <<>>])
    ELSE IF first_opt.v + 1 > Len(queue.record_metas)
    THEN Panicked
    ELSE MemQueue_drain(queue, first_opt.v,
                        queue.record_metas[first_opt.v + 1].start_offset,
                        RollingBuffer_truncate_start(
                            queue.concatenated_records,
                            queue.record_metas[first_opt.v + 1].start_offset, debug))

\* Ok(queue) or a panic
MemQueue_truncate(queue, truncate_up_to_pos, debug) ==
    IF queue.start_position > truncate_up_to_pos
    THEN Ok(queue)
    ELSE MemQueue_truncate_from(queue, position_to_idx(queue, truncate_up_to_pos + 1),
                                debug)

\* ------------------------------------------------------------------------
\* mem/queues.rs: MemQueues, a map from queue name to MemQueue
\* ------------------------------------------------------------------------
\* a queue name maps to NoQueue when the map has no such key
NoQueue == [absent |-> TRUE]

contains_queue(qs, queue) == qs[queue] # NoQueue

MemQueues_default == [q \in Queues |-> NoQueue]

empty_queues(qs) == {q \in Queues : contains_queue(qs, q) /\ MemQueue_is_empty(qs[q])}

ack_position(qs, queue_name, next_position) ==
    IF contains_queue(qs, queue_name)
    THEN IF ~MemQueue_is_empty(qs[queue_name])
            \/ MemQueue_next_position(qs[queue_name]) # next_position
         THEN [qs EXCEPT ![queue_name] = MemQueue_with_next_position(next_position)]
         ELSE qs
    ELSE [qs EXCEPT ![queue_name] = MemQueue_with_next_position(next_position)]

\* ------------------------------------------------------------------------
\* multi_record_log.rs: PersistPolicy / PersistState
\* ------------------------------------------------------------------------
\* PersistState: [kind, action]; kind is "OnAppend" (policy Always), "OnDelay"
\* or "OnRequest" (policy DoNothing); action is "Flush" or "FlushAndFsync".
\* The clock is not part of the state: whether next_sync has passed when
\* should_persist reads it is an input of the call (elapsed).

\* the policies open_with_prefs is called with: Always(Flush), which is what
\* open passes, OnDelay { action: FlushAndFsync, .. } and DoNothing(Flush)
Policies ==
    {[kind |-> "OnAppend", action |-> "Flush"],
     [kind |-> "OnDelay", action |-> "FlushAndFsync"],
     [kind |-> "OnRequest", action |-> "Flush"]}

should_persist(state, elapsed) ==
    CASE state.kind = "OnAppend" -> TRUE
      [] state.kind = "OnDelay" -> elapsed
      [] OTHER -> FALSE

\* PersistAction::is_fsync
is_fsync(action) == action = "FlushAndFsync"

\* ------------------------------------------------------------------------
\* record.rs: the multiplexed records written to the log
\* ------------------------------------------------------------------------
\* MultiRecord::serialize: the sub-records get positions position, position + 1, ...
MultiRecord_serialize(payloads, position) ==
    [i \in 1..Len(payloads) |-> [position |-> position + i - 1, payload |-> payloads[i]]]

AppendRecordsRec(queue, position, records) ==
    [type |-> "AppendRecords", queue |-> queue, position |-> position, records |-> records]
TruncateRec(queue, position) ==
    [type |-> "Truncate", queue |-> queue, position |-> position, records |-> <<>>]
RecordPositionRec(queue, position) ==
    [type |-> "RecordPosition", queue |-> queue, position |-> position, records |-> <<>>]
DeleteQueueRec(queue, position) ==
    [type |-> "DeleteQueue", queue |-> queue, position |-> position, records |-> <<>>]

\* ------------------------------------------------------------------------
\* rolling/directory.rs, rolling/file_number.rs: the files and the writer
\* ------------------------------------------------------------------------
\* The directory and its writer: [files, file_number, offset, log]
\*   files        the file numbers the FileTracker tracks (the files on disk)
\*   file_number  the file the RollingWriter writes to
\*   offset       the number of records written to that file
\*   log          the records on disk in write order, each [file, rec, dur];
\*                dur is 0 in the BufWriter, 1 handed to the OS, 2 fsynced
SetMin(S) == CHOOSE x \in S : \A y \in S : x <= y

FileTracker_first(files) == SetMin(files)

\* RollingWriter::flush
RollingWriter_flush(w, fsync) ==
    [w EXCEPT !.log = [i \in 1..Len(@) |->
                          [@[i] EXCEPT !.dur = IF fsync THEN 2
                                                ELSE IF @ = 0 THEN 1 ELSE @]]]

\* RecordWriter::write_record over RollingWriter::write: when the file is
\* full, flush it and roll over to the next file (FileTracker::next / inc)
write_record(w, rec) ==
    LET full == w.offset >= RecordsPerFile
        rolled == IF full
                  THEN [RollingWriter_flush(w, FALSE) EXCEPT
                            !.files = @ \cup {w.file_number + 1},
                            !.file_number = w.file_number + 1,
                            !.offset = 0]
                  ELSE w
    IN [rolled EXCEPT !.offset = @ + 1,
                      !.log = Append(@, [file |-> rolled.file_number,
                                         rec |-> rec, dur |-> 0])]

\* the files the records of a queue hold a FileNumber of
FilesOfQueue(queue) ==
    {queue.record_metas[i].file_number.v :
        i \in {j \in 1..Len(queue.record_metas) : queue.record_metas[j].file_number.some}}

FilesOfQueues(qs) ==
    UNION {FilesOfQueue(qs[q]) : q \in {q2 \in Queues : contains_queue(qs, q2)}}

\* can_be_deleted counting the references of the writer only
can_be_deleted_unless_held(file, qs, held) == file \notin held

\* FileNumber::can_be_deleted: the tracker holds the only reference; `held`
\* are the references outside the queues (the writer's, a local clone)
can_be_deleted(file, qs, held) == file \notin (FilesOfQueues(qs) \cup held)

\* has_files_that_can_be_deleted asking for more than two files
has_files_that_can_be_deleted_above_two(w, qs) ==
    /\ Cardinality(w.files) > 2
    /\ can_be_deleted(FileTracker_first(w.files), qs, {w.file_number})

\* Directory::has_files_that_can_be_deleted
has_files_that_can_be_deleted(w, qs) ==
    /\ Cardinality(w.files) >= 2
    /\ can_be_deleted(FileTracker_first(w.files), qs, {w.file_number})

\* Directory::gc over a take_first_unused that pops the last file of the tracker
RECURSIVE Directory_gc_popping_last(_, _, _)
Directory_gc_popping_last(w, qs, held) ==
    IF Cardinality(w.files) >= 2 /\ can_be_deleted(FileTracker_first(w.files), qs, held)
    THEN LET popped == CHOOSE f \in w.files : \A g \in w.files : g <= f
         IN Directory_gc_popping_last([w EXCEPT !.files = @ \ {popped},
                                                !.log = SelectSeq(@, LAMBDA e : e.file # popped)],
                                      qs, held)
    ELSE w

\* Directory::gc: unlink the first file while FileTracker::take_first_unused
\* yields one
RECURSIVE Directory_gc(_, _, _)
Directory_gc(w, qs, held) ==
    IF Cardinality(w.files) >= 2 /\ can_be_deleted(FileTracker_first(w.files), qs, held)
    THEN LET first == FileTracker_first(w.files)
         IN Directory_gc([w EXCEPT !.files = @ \ {first},
                                   !.log = SelectSeq(@, LAMBDA e : e.file # first)],
                         qs, held)
    ELSE w

\* ------------------------------------------------------------------------
\* multi_record_log.rs: MultiRecordLog
\* ------------------------------------------------------------------------
\* whether debug assertions (debug_assert_eq!, overflow checks) are compiled in
VARIABLE debug_assertions
\* "open": a MultiRecordLog exists; "panicked": a call panicked and the
\* MultiRecordLog is gone; "corruption": open returned ReadRecordError::Corruption;
\* "hang": open does not return
VARIABLE status
\* MultiRecordLog::in_mem_queues
VARIABLE in_mem_queues
\* MultiRecordLog::record_log_writer and the directory it writes to
VARIABLE writer
\* MultiRecordLog::next_persist
VARIABLE next_persist
\* the last API call: its arguments and what it returned
VARIABLE last
\* the number of API calls made so far
VARIABLE nops
\* history: whether every API call so far returned Ok
VARIABLE all_ok
\* history: for each queue name and position, the length of the payload most
\* recently appended there by a call that returned Ok(Some(_)), or None
VARIABLE appended

\* the clock, Instant::now(): Spec leaves it alone and takes whether next_sync
\* has passed as an input of the calls; SpecClock makes it tick
VARIABLE now
\* PersistState::OnDelay::next_sync
VARIABLE next_sync

\* the record being serialized and deserialized (SpecCodec): record.rs
VARIABLE codec
\* VecBlockWriter { cursor, buffer } under the RecordWriter (SpecRecordLog)
VARIABLE wrt
\* the records given to RecordWriter::write_record, in order
VARIABLE wrote
\* RecordReader, with its FrameReader and the block reader under it:
\* [block_id, cursor, block_corrupted, within_record, record_buffer]
VARIABLE reader
\* what the calls of RecordReader::read_record returned, in order
VARIABLE returned
\* where SpecRecordLog and SpecOpen are: "writing", "reading", or how the
\* reading ended
VARIABLE stage
\* the block of the data that was overwritten (SpecOpen), -1 when none was
VARIABLE damaged

\* the pages in memory (SpecArena, SpecRollingBuffer, SpecPagesBuf): the Arena
\* and the RollingBuffer or PagesBuf over it
VARIABLE mem
\* history: what was given to the calls on the pages in memory and to
\* MemQueues::append_record (SpecKeepFilenum)
VARIABLE history

\* the variables of the clock, which only SpecClock changes
clock == <<now, next_sync>>
\* the variables of the record log, which only SpecRecordLog changes
recordlog == <<wrt, wrote, reader, returned, stage, damaged>>
\* the variables that Spec leaves alone
aside == <<now, next_sync, codec, wrt, wrote, reader, returned, stage, damaged, mem,
           history>>

vars == <<debug_assertions, status, in_mem_queues, writer, next_persist, last, nops,
          all_ok, appended, now, next_sync, codec, wrt, wrote, reader, returned, stage,
          damaged, mem, history>>

\* persist_and_maybe_fsync
persist_and_maybe_fsync(w, state) == RollingWriter_flush(w, is_fsync(state.action))

\* persist_on_policy
persist_on_policy(w, state, elapsed) ==
    IF should_persist(state, elapsed) THEN persist_and_maybe_fsync(w, state) ELSE w

\* the orders in which a HashMap may iterate over the set S of its keys
Orders(S) ==
    {o \in [1..Cardinality(S) -> S] : \A i, j \in 1..Cardinality(S) : i # j => o[i] # o[j]}

RECURSIVE WritePositions(_, _, _, _)
WritePositions(w, qs, order, i) ==
    IF i > Len(order)
    THEN w
    ELSE WritePositions(
             write_record(w, RecordPositionRec(order[i],
                                               MemQueue_next_position(qs[order[i]]))),
             qs, order, i + 1)

\* record_empty_queues_position, the empty queues visited in `order`
record_empty_queues_position(w, qs, state, order) ==
    IF Len(order) > 0
    THEN persist_and_maybe_fsync(WritePositions(w, qs, order, 1), state)
    ELSE WritePositions(w, qs, order, 1)

\* run_gc_if_necessary: the writers it may leave, one per iteration order
run_gc_if_necessary(w, qs, state) ==
    IF has_files_that_can_be_deleted(w, qs)
    THEN {Directory_gc(record_empty_queues_position(w, qs, state, order), qs,
                       {w.file_number,
                        record_empty_queues_position(w, qs, state, order).file_number}) :
             order \in Orders(empty_queues(qs))}
    ELSE {w}

\* ------------------------------------------------------------------------
\* multi_record_log.rs: open_with_prefs, the replay of the log
\* ------------------------------------------------------------------------
\* the in-memory loop over the sub-records of an AppendRecords record:
\* [res, qs], res "Ok", "Future", "Past" or "Panic"
RECURSIVE AppendAll(_, _, _, _, _)
\* the loop from sub-record i, r what append_record made of sub-record i - 1
AppendNext(qs, queue, file_number, records, i, r) ==
    IF r.res = "Ok"
    THEN AppendAll([qs EXCEPT ![queue] = r.queue], queue, file_number, records, i)
    ELSE [res |-> r.res, qs |-> qs]

AppendAll(qs, queue, file_number, records, i) ==
    IF i > Len(records)
    THEN [res |-> "Ok", qs |-> qs]
    ELSE AppendNext(qs, queue, file_number, records, i + 1,
                    MemQueue_append_record(qs[queue], file_number,
                                           records[i].position, records[i].payload))

\* .map_err(|_| ReadRecordError::Corruption)
map_err_Corruption(r) ==
    [res |-> CASE r.res = "Ok" -> "Ok"
               [] r.res = "Panic" -> "Panic"
               [] OTHER -> "Corruption",
     qs |-> r.qs]

\* MemQueues::truncate, t what MemQueue::truncate made of the queue
MemQueues_truncated(qs, queue, t) ==
    IF t.ok
    THEN [res |-> "Ok", qs |-> [qs EXCEPT ![queue] = t.val]]
    ELSE [res |-> "Panic", qs |-> qs]

\* one iteration of the loop of open_with_prefs on a record read while the
\* reader was on file file_number: [res, qs], res "Ok", "Corruption" or "Panic"
ReplayRecord(qs, rec, file_number, debug) ==
    CASE rec.type = "AppendRecords" ->
            map_err_Corruption(
                AppendAll(IF contains_queue(qs, rec.queue)
                          THEN qs
                          ELSE ack_position(qs, rec.queue, rec.position),
                          rec.queue, file_number, rec.records, 1))
      [] rec.type = "Truncate" ->
            IF contains_queue(qs, rec.queue)
            THEN MemQueues_truncated(qs, rec.queue,
                                     MemQueue_truncate(qs[rec.queue], rec.position, debug))
            ELSE [res |-> "Ok", qs |-> qs]
      [] rec.type = "RecordPosition" ->
            [res |-> "Ok", qs |-> ack_position(qs, rec.queue, rec.position)]
      [] OTHER ->
            [res |-> "Ok", qs |-> [qs EXCEPT ![rec.queue] = NoQueue]]

\* The loop of open_with_prefs over the records `entries` of the files `files`.
\* reader_file is the file the RollingReader is on, consumed the number of
\* records it has read from it.  [res, qs, file_number, offset]: res is "Ok",
\* "Corruption", "Panic" or "Hang"; file_number and offset are where the reader
\* stops.
RECURSIVE Replay(_, _, _, _, _, _, _)
\* the loop after record i, which r is the outcome of
ReplayNext(entries, files, i, qs, reader_file, consumed, debug, r) ==
    IF r.res = "Ok"
    THEN Replay(entries, files, i + 1, r.qs, entries[i].file,
                IF entries[i].file = reader_file THEN consumed + 1 ELSE 1, debug)
    ELSE [res |-> r.res, qs |-> qs, file_number |-> reader_file, offset |-> consumed]

\* what open_with_prefs does when the records it has read are read again
ReadAgain(res) == IF res = "Ok" THEN "Hang" ELSE res

Replay(entries, files, i, qs, reader_file, consumed, debug) ==
    IF i <= Len(entries)
    THEN \* the record is attributed to the file the reader is on before it
         \* reads it (current_file() is cloned before read_record)
         ReplayNext(entries, files, i, qs, reader_file, consumed, debug,
                    ReplayRecord(qs, entries[i].rec, reader_file, debug))
    ELSE IF consumed < RecordsPerFile
    THEN \* an all-zero frame header: no more record
         [res |-> "Ok", qs |-> qs, file_number |-> reader_file, offset |-> consumed]
    ELSE IF reader_file + 1 \in files
    THEN \* next_block moves to the next file, which holds no record
         [res |-> "Ok", qs |-> qs, file_number |-> reader_file + 1, offset |-> 0]
    ELSE \* next_block returns false, which go_to_next_block_if_necessary
         \* ignores: the cursor goes back to the start of the last block, whose
         \* records are read again, and again
         [res |-> ReadAgain(ReplayRecord(qs, entries[Len(entries)].rec, reader_file,
                                         debug).res),
          qs |-> qs, file_number |-> reader_file, offset |-> consumed]

\* ------------------------------------------------------------------------
\* multi_record_log.rs: the API calls as functions of the state
\* ------------------------------------------------------------------------
\* what a call returns and leaves: [res, val, qs, w].  res is "Ok", "OkSome",
\* "OkNone" or the name of the error returned, or "Panic"; val is the value
\* inside Ok(Some(_)) / Ok(_)
Outcome(res, val, qs, w) == [res |-> res, val |-> val, qs |-> qs, w |-> w]

\* create_queue writing the RecordPosition record before it looks for the queue
create_queue_after_write(qs, w, state, queue) ==
    IF contains_queue(qs, queue)
    THEN Outcome("AlreadyExists", 0, qs, write_record(w, RecordPositionRec(queue, 0)))
    ELSE Outcome("Ok", 0, [qs EXCEPT ![queue] = MemQueue_new],
                 persist_and_maybe_fsync(
                     write_record(w, RecordPositionRec(queue, 0)), state))

\* MultiRecordLog::create_queue
create_queue(qs, w, state, queue) ==
    IF contains_queue(qs, queue)
    THEN Outcome("AlreadyExists", 0, qs, w)
    ELSE Outcome("Ok", 0, [qs EXCEPT ![queue] = MemQueue_new],
                 persist_and_maybe_fsync(
                     write_record(w, RecordPositionRec(queue, 0)), state))

\* MultiRecordLog::delete_queue: the outcomes, one per order of the GC
delete_queue(qs, w, state, queue) ==
    IF ~contains_queue(qs, queue)
    THEN {Outcome("MissingQueue", 0, qs, w)}
    ELSE LET position == MemQueue_next_position(qs[queue])
             written == write_record(w, DeleteQueueRec(queue, position))
             deleted == [qs EXCEPT ![queue] = NoQueue]
         IN {Outcome("Ok", 0, deleted, persist_and_maybe_fsync(collected, state)) :
                collected \in run_gc_if_necessary(written, deleted, state)}

\* MultiRecordLog::append_records from the write of the record on: r is what
\* the in-memory loop makes of the queues
append_records_written(w, state, queue, position, records, elapsed, r) ==
    Outcome(IF r.res = "Ok" THEN "OkSome" ELSE r.res,
            IF r.res = "Ok" THEN position + Len(records) - 1 ELSE 0,
            r.qs,
            persist_on_policy(
                write_record(w, AppendRecordsRec(queue, position, records)),
                state, elapsed))

\* append_records_at without the early return on an empty batch
append_records_at_writing_empty(qs, w, state, queue, position, records, elapsed) ==
    append_records_written(w, state, queue, position, records, elapsed,
                           AppendAll(qs, queue, w.file_number, records, 1))

\* MultiRecordLog::append_records from the serialization on
append_records_at(qs, w, state, queue, position, records, elapsed) ==
    IF records = <<>>
    THEN \* empty transaction: don't persist it
         Outcome("OkNone", 0, qs, w)
    ELSE append_records_written(w, state, queue, position, records, elapsed,
                                AppendAll(qs, queue, w.file_number, records, 1))

\* append_records_from taking position = next_position for the replay of the
\* last append
append_records_from_replay_at_next(qs, w, state, queue, position_opt, payloads, elapsed, next_position) ==
    IF position_opt.some /\ position_opt.v = next_position
    THEN Outcome("OkNone", 0, qs, w)
    ELSE IF position_opt.some /\ position_opt.v < next_position
    THEN Outcome("Past", 0, qs, w)
    ELSE append_records_at(qs, w, state, queue, unwrap_or(position_opt, next_position),
                           MultiRecord_serialize(payloads,
                                                 unwrap_or(position_opt, next_position)),
                           elapsed)

\* MultiRecordLog::append_records when the queue exists
append_records_from(qs, w, state, queue, position_opt, payloads, elapsed, next_position) ==
    IF position_opt.some /\ position_opt.v + 1 = next_position
    THEN Outcome("OkNone", 0, qs, w)
    ELSE IF position_opt.some /\ position_opt.v < next_position
    THEN Outcome("Past", 0, qs, w)
    ELSE append_records_at(qs, w, state, queue, unwrap_or(position_opt, next_position),
                           MultiRecord_serialize(payloads,
                                                 unwrap_or(position_opt, next_position)),
                           elapsed)

\* MultiRecordLog::append_records
append_records(qs, w, state, queue, position_opt, payloads, elapsed) ==
    IF ~contains_queue(qs, queue)
    THEN Outcome("MissingQueue", 0, qs, w)
    ELSE append_records_from(qs, w, state, queue, position_opt, payloads, elapsed,
                             MemQueue_next_position(qs[queue]))

\* the count MemQueues::truncate passes on from MemQueue::truncate: the number
\* of records that left the queue
MemQueue_truncate_count(queue, truncated) ==
    Len(queue.record_metas) - Len(truncated.record_metas)

\* MultiRecordLog::truncate answering the unwrap_or(0) default whatever the
\* queue lost
truncate_written_default_count(qs, written, state, queue, elapsed, t) ==
    IF ~t.ok
    THEN {Outcome("Panic", 0, qs, written)}
    ELSE {Outcome("Ok", 0, [qs EXCEPT ![queue] = t.val],
                  persist_on_policy(collected, state, elapsed)) :
             collected \in run_gc_if_necessary(written, [qs EXCEPT ![queue] = t.val],
                                               state)}

\* MultiRecordLog::truncate from the write of the record on: t is what
\* MemQueue::truncate makes of the queue.  One outcome per order of the GC.
truncate_written(qs, written, state, queue, elapsed, t) ==
    IF ~t.ok
    THEN {Outcome("Panic", 0, qs, written)}
    ELSE {Outcome("Ok", MemQueue_truncate_count(qs[queue], t.val),
                  [qs EXCEPT ![queue] = t.val],
                  persist_on_policy(collected, state, elapsed)) :
             collected \in run_gc_if_necessary(written, [qs EXCEPT ![queue] = t.val],
                                               state)}

\* MultiRecordLog::truncate
truncate(qs, w, state, queue, position, elapsed, debug) ==
    IF ~contains_queue(qs, queue)
    THEN {Outcome("MissingQueue", 0, qs, w)}
    ELSE truncate_written(qs, write_record(w, TruncateRec(queue, position)), state,
                          queue, elapsed, MemQueue_truncate(qs[queue], position, debug))

\* MultiRecordLog::range(queue, ..): Ok(records) or a panic
range_all(qs, queue, debug) == MemQueue_range(qs[queue], Unbounded, Unbounded, debug)

\* MultiRecordLog::range(queue, lo..=hi)
range_incl(qs, queue, lo, hi, debug) ==
    MemQueue_range(qs[queue], Included(lo), Included(hi), debug)

\* ------------------------------------------------------------------------
\* The state machine
\* ------------------------------------------------------------------------
PosLimit == MaxPos + MaxOps * MaxBatch
NoCall == [op |-> "open", queue |-> "", position |-> None, n |-> 0,
           res |-> "Ok", val |-> 0]
Call(op, queue, position, n, res, val) ==
    [op |-> op, queue |-> queue, position |-> position, n |-> n,
     res |-> res, val |-> val]
Errors == {"AlreadyExists", "MissingQueue", "Past", "Future", "Panic",
           "Corruption", "Hang"}

\* MultiRecordLog::open_with_prefs on an empty directory
InitLog ==
    /\ debug_assertions \in BOOLEAN
    /\ next_persist \in Policies
    /\ status = "open"
    /\ in_mem_queues = MemQueues_default
    /\ writer = [files |-> {0}, file_number |-> 0, offset |-> 0, log |-> <<>>]
    /\ last = NoCall
    /\ nops = 0
    /\ all_ok = TRUE
    /\ appended = [q \in Queues |-> [p \in 0..PosLimit |-> None]]

\* the clock where Spec leaves it
NoClock == now = 0 /\ next_sync = 0
\* no record is being serialized
NoCodec == codec = [step |-> "none"]
\* RecordWriter::in_memory(), and no reader
NoRecordLog ==
    /\ wrt = [cursor |-> 0, buffer |-> <<>>]
    /\ wrote = <<>>
    /\ reader = [block_id |-> 0, cursor |-> 0, block_corrupted |-> FALSE,
                 within_record |-> FALSE, record_buffer |-> <<>>]
    /\ returned = <<>>
    /\ stage = "none"
    /\ damaged = -1

\* no page in memory
NoMem == mem = [kind |-> "none"] /\ history = <<>>

Init == InitLog /\ NoClock /\ NoCodec /\ NoRecordLog /\ NoMem

\* what every call does with its outcome o
Return(op, queue, position, n, o) ==
    /\ nops' = nops + 1
    /\ last' = Call(op, queue, position, n, o.res, o.val)
    /\ all_ok' = (all_ok /\ o.res \notin Errors)
    /\ writer' = o.w
    /\ status' = IF o.res = "Panic" THEN "panicked" ELSE "open"
    /\ in_mem_queues' = IF o.res = "Panic" THEN MemQueues_default ELSE o.qs
    /\ UNCHANGED <<debug_assertions, next_persist>>

CreateQueue(queue) ==
    /\ status = "open" /\ nops < MaxOps
    /\ Return("create_queue", queue, None, 0,
              create_queue(in_mem_queues, writer, next_persist, queue))
    /\ UNCHANGED <<appended, aside>>

DeleteQueue(queue) ==
    /\ status = "open" /\ nops < MaxOps
    /\ \E o \in delete_queue(in_mem_queues, writer, next_persist, queue) :
          Return("delete_queue", queue, None, 0, o)
    /\ UNCHANGED <<appended, aside>>

\* the payloads a call that returned Ok(Some(last)) appended
Appended(queue, payloads, o) ==
    IF o.res = "OkSome"
    THEN [appended EXCEPT ![queue] =
             [p \in 0..PosLimit |->
                 IF p \in o.val - Len(payloads) + 1..o.val
                 THEN Some(Len(payloads[p - (o.val - Len(payloads))]))
                 ELSE @[p]]]
    ELSE appended

AppendRecords(queue, position_opt, payloads, elapsed) ==
    /\ status = "open" /\ nops < MaxOps
    /\ \E o \in {append_records(in_mem_queues, writer, next_persist, queue,
                                position_opt, payloads, elapsed)} :
          /\ Return("append_records", queue, position_opt, Len(payloads), o)
          /\ appended' = Appended(queue, payloads, o)
    /\ UNCHANGED aside

Truncate(queue, position, elapsed) ==
    /\ status = "open" /\ nops < MaxOps
    /\ \E o \in truncate(in_mem_queues, writer, next_persist, queue, position,
                         elapsed, debug_assertions) :
          Return("truncate", queue, Some(position), 0, o)
    /\ UNCHANGED <<appended, aside>>

\* MultiRecordLog::persist
Persist(fsync) ==
    /\ status = "open" /\ nops < MaxOps
    /\ Return("persist", "", None, 0,
              Outcome("Ok", 0, in_mem_queues, RollingWriter_flush(writer, fsync)))
    /\ UNCHANGED <<appended, aside>>

\* the number of records at the end of the log that are still in the BufWriter
RECURSIVE Buffered(_)
Buffered(log) ==
    IF log = <<>> \/ log[Len(log)].dur # 0
    THEN 0
    ELSE 1 + Buffered(SubSeq(log, 1, Len(log) - 1))

\* The MultiRecordLog is dropped (or the process stops) and the directory is
\* opened again.  Of the records still in the BufWriter, the last `lost` never
\* reached the file.
Reopened(lost, on_disk, r) ==
    IF r.res = "Ok"
    THEN \E collected \in run_gc_if_necessary(
                              [files |-> writer.files, file_number |-> r.file_number,
                               offset |-> r.offset, log |-> on_disk],
                              r.qs, next_persist) :
            /\ writer' = collected
            /\ in_mem_queues' = r.qs
            /\ status' = "open"
            /\ last' = Call("reopen", "", None, lost, "Ok", 0)
            /\ all_ok' = all_ok
    ELSE /\ writer' = [writer EXCEPT !.log = on_disk]
         /\ in_mem_queues' = MemQueues_default
         /\ status' = CASE r.res = "Corruption" -> "corruption"
                        [] r.res = "Hang" -> "hang"
                        [] OTHER -> "panicked"
         /\ last' = Call("reopen", "", None, lost, r.res, 0)
         /\ all_ok' = FALSE

\* the records that are in the files when the last `lost` never reached them
OnDisk(log, lost) ==
    [i \in 1..Len(log) - lost |-> [log[i] EXCEPT !.dur = IF @ = 0 THEN 1 ELSE @]]

\* FrameType::is_first_frame_of_record, FrameType::is_last_frame_of_record
is_first_frame_of_record(frame_type) == frame_type \in {"Full", "First"}
is_last_frame_of_record(frame_type) == frame_type \in {"Full", "Last"}

\* go_next taking the end of the frames for the end of the record it is within
RECURSIVE go_next_until_no_frame(_, _, _)
go_next_until_no_frame(frames, i, within_record) ==
    IF i > Len(frames)
    THEN [res |-> IF within_record THEN "Record" ELSE "NotAvailable", next |-> i]
    ELSE IF frames[i] = "Corrupted"
    THEN [res |-> "Corruption", next |-> i + 1]
    ELSE IF (within_record \/ is_first_frame_of_record(frames[i]))
               /\ is_last_frame_of_record(frames[i])
    THEN [res |-> "Record", next |-> i + 1]
    ELSE go_next_until_no_frame(frames, i + 1,
                                within_record \/ is_first_frame_of_record(frames[i]))

\* RecordReader::go_next from frame i of `frames`, the frames between the
\* cursor and the first all-zero header; a "Corrupted" frame is one whose CRC
\* check fails.  [res, next]: res is "Record" (Ok(true)), "NotAvailable"
\* (Ok(false)) or "Corruption", next the frame the cursor is left on.
RECURSIVE go_next(_, _, _)
go_next(frames, i, within_record) ==
    IF i > Len(frames)
    THEN [res |-> "NotAvailable", next |-> i]
    ELSE IF frames[i] = "Corrupted"
    THEN [res |-> "Corruption", next |-> i + 1]
    ELSE IF (within_record \/ is_first_frame_of_record(frames[i]))
               /\ is_last_frame_of_record(frames[i])
    THEN [res |-> "Record", next |-> i + 1]
    ELSE go_next(frames, i + 1, within_record \/ is_first_frame_of_record(frames[i]))

\* the loop of open_with_prefs from frame i of the frames that follow the last
\* whole record: a Corruption is logged and the loop goes on, no record ends
\* it.  TRUE when read_record hands a record to the loop.
RECURSIVE ReadsRecord(_, _)
ReadsRecordNext(frames, r) ==
    CASE r.res = "Record" -> TRUE
      [] r.res = "Corruption" -> ReadsRecord(frames, r.next)
      [] OTHER -> FALSE

ReadsRecord(frames, i) == ReadsRecordNext(frames, go_next(frames, i, FALSE))

\* the frames that RecordWriter::write_record leaves in the file when the
\* process stops while the BufWriter hands a record of several frames to the
\* file: whole frames short of the last one, then possibly a part of a frame
TornTails ==
    {<<>>, <<"First">>, <<"First", "Middle">>, <<"First", "Corrupted">>}

\* what deserializes from the frames of a torn AppendRecords record: its
\* sub-records short of the last one
TornRecord(entry) ==
    [entry EXCEPT !.rec.records = SubSeq(@, 1, Len(@) - 1), !.dur = 1]

\* the records that open_with_prefs reads: those in the files and, when
\* `yielded`, the one deserialized from the frames of the torn record
ReadFromDisk(log, lost, yielded) ==
    IF yielded /\ lost >= 1 /\ Len(log[Len(log) - lost + 1].rec.records) >= 2
    THEN Append(OnDisk(log, lost), TornRecord(log[Len(log) - lost + 1]))
    ELSE OnDisk(log, lost)

Reopen(lost, tail) ==
    /\ status \in {"open", "panicked"} /\ nops < MaxOps
    /\ lost <= Buffered(writer.log)
    /\ tail # <<>> => lost >= 1
    /\ \E on_disk \in {ReadFromDisk(writer.log, lost, ReadsRecord(tail, 1))} :
          Reopened(lost, on_disk,
                   Replay(on_disk, writer.files, 1, MemQueues_default,
                          FileTracker_first(writer.files), 0, debug_assertions))
    /\ nops' = nops + 1
    /\ UNCHANGED <<debug_assertions, next_persist, appended, aside>>

\* whether next_sync has passed when the call reads the clock: only
\* PersistState::OnDelay reads it
Elapsed == IF next_persist.kind = "OnDelay" THEN BOOLEAN ELSE {FALSE}

Next ==
    \/ \E queue \in Queues : CreateQueue(queue)
    \/ \E queue \in Queues : DeleteQueue(queue)
    \/ \E queue \in Queues, position_opt \in {None} \cup {Some(p) : p \in 0..MaxPos},
          payloads \in Batches, elapsed \in Elapsed :
          AppendRecords(queue, position_opt, payloads, elapsed)
    \/ \E queue \in Queues, position \in 0..MaxPos, elapsed \in Elapsed :
          Truncate(queue, position, elapsed)
    \/ \E fsync \in BOOLEAN : Persist(fsync)
    \/ \E lost \in 0..MaxBatch, tail \in TornTails : Reopen(lost, tail)

Spec == Init /\ [][Next]_vars

\* ------------------------------------------------------------------------
\* What a caller observes
\* ------------------------------------------------------------------------
\* MultiRecordLog::queue_exists
queue_exists(queue) == contains_queue(in_mem_queues, queue)

\* the records on disk have all been handed to the OS
AllPersisted == \A i \in 1..Len(writer.log) : writer.log[i].dur >= 1

\* the step is a call of append_records on an existing queue
IsAppend == nops' = nops + 1 /\ last'.op = "append_records" /\ queue_exists(last'.queue)

\* the step drops the MultiRecordLog and opens the directory again
IsReopen == nops' = nops + 1 /\ last'.op = "reopen" /\ status = "open"

\* the payload appended at position p of queue q
AppendedAt(q, p) == Payload(appended[q][p].v)

\* record r of queue q carries the payload appended at its position
CarriesAppended(q, r) ==
    /\ r.position \in 0..PosLimit
    /\ appended[q][r.position].some
    /\ r.payload = AppendedAt(q, r.position)

\* ------------------------------------------------------------------------
\* C1..C10
\* ------------------------------------------------------------------------
\* C1: after successful calls whose writes are all persisted, dropping the
\* MultiRecordLog and opening the directory again succeeds and yields the same
\* queues and, for every queue, the same range(Q, ..).
C1_ReopenYieldsSameQueues ==
    [][(IsReopen /\ all_ok /\ AllPersisted)
          => /\ status' = "open"
             /\ \A q \in Queues :
                   /\ contains_queue(in_mem_queues', q) = queue_exists(q)
                   /\ queue_exists(q)
                         => range_all(in_mem_queues', q, debug_assertions)
                               = range_all(in_mem_queues, q, debug_assertions)]_vars

\* C2: when the writes are all persisted, every existing queue exists after a
\* reopen with the same next_position, so that append_record(Q, None, x)
\* returns the position it would have returned without the reopen.
C2_NextPositionSurvivesReopen ==
    [][(IsReopen /\ AllPersisted)
          => /\ status' = "open"
             /\ \A q \in Queues :
                   queue_exists(q)
                      => /\ contains_queue(in_mem_queues', q)
                         /\ MemQueue_next_position(in_mem_queues'[q])
                               = MemQueue_next_position(in_mem_queues[q])]_vars

\* every record of the collected range r of queue q carries the payload that
\* was appended at its position
AllCarryAppended(q, r) ==
    r.ok /\ \A k \in 1..Len(r.val) : CarriesAppended(q, r.val[k])

\* C3: every record that range(Q, ..) returns carries exactly the payload that
\* was appended at its position.
C3_RangeCarriesAppendedPayloads ==
    status = "open"
       => \A q \in Queues :
             queue_exists(q)
                => AllCarryAppended(q, range_all(in_mem_queues, q, debug_assertions))

\* the records of range(Q, ..) of the queues qs whose position is p
RecordsAt(qs, q, p) ==
    SelectSeq(range_all(qs, q, debug_assertions).val, LAMBDA r : r.position = p)

\* the previous call was append_record(Q, Some(p), x) and stored a record at p
StoredAtRequested ==
    /\ last.op = "append_records" /\ last.res = "OkSome"
    /\ last.position.some /\ last.n = 1 /\ last.val = last.position.v

\* the step is append_record(Q, Some(p), y) with the Q and p of the previous call
IsSameAppendAgain ==
    /\ IsAppend /\ last'.queue = last.queue /\ last'.position = last.position
    /\ last'.n = 1

\* C4: if append_record(Q, Some(p), x) stored a record at p, the same call made
\* again right away returns Ok(None), writes nothing to the log and leaves
\* range(Q, ..) unchanged: exactly one record at p, with payload x.
C4_SameAppendAgainIsNoOp ==
    [][(StoredAtRequested /\ IsSameAppendAgain)
          => /\ last'.res = "OkNone"
             /\ writer'.log = writer.log
             /\ range_all(in_mem_queues', last.queue, debug_assertions).ok
             /\ range_all(in_mem_queues', last.queue, debug_assertions)
                   = range_all(in_mem_queues, last.queue, debug_assertions)
             /\ RecordsAt(in_mem_queues', last.queue, last.val)
                   = <<[position |-> last.val,
                        payload |-> AppendedAt(last.queue, last.val)]>>]_vars

\* C5: append_records(Q, Some(p), ..) with p + 1 < next_position(Q) fails with
\* AppendError::Past, and with p + 1 = next_position(Q) it returns Ok(None).
C5_PastPositionRejected ==
    [][(IsAppend /\ last'.position.some)
          => /\ last'.position.v + 1 < MemQueue_next_position(in_mem_queues[last'.queue])
                   => last'.res = "Past"
             /\ last'.position.v + 1 = MemQueue_next_position(in_mem_queues[last'.queue])
                   => last'.res = "OkNone"]_vars

\* an append at a position more than one step behind next_position(Q) has
\* returned AppendError::Past
C5_Witness ==
    /\ status = "open" /\ last.op = "append_records" /\ queue_exists(last.queue)
    /\ last.position.some /\ last.n >= 1 /\ last.res = "Past"
    /\ last.position.v + 1 < MemQueue_next_position(in_mem_queues[last.queue])

\* C6: append_records(Q, Some(p), batch) with p > next_position(Q) and n >= 1
\* payloads succeeds and returns Some(p + n - 1); Q then holds the n records
\* more, those it had being kept, and next_position(Q) is p + n.
C6_AppendAheadAdvances ==
    [][(/\ IsAppend /\ last'.position.some /\ last'.n >= 1
        /\ last'.position.v > MemQueue_next_position(in_mem_queues[last'.queue]))
          => /\ last'.res = "OkSome"
             /\ last'.val = last'.position.v + last'.n - 1
             /\ MemQueue_next_position(in_mem_queues'[last'.queue])
                   = last'.position.v + last'.n
             /\ Len(in_mem_queues'[last'.queue].record_metas)
                   = Len(in_mem_queues[last'.queue].record_metas) + last'.n]_vars

\* the last n records of the sequence records
LastRecords(records, n) == SubSeq(records, Len(records) - n + 1, Len(records))

\* C7: append_records(Q, None, batch) with n >= 1 payloads returns
\* Some(N + n - 1), N the next_position(Q) before the call, and range(Q, ..) then
\* ends with the n payloads of the batch, in order, at positions N .. N + n - 1.
C7_AppendReturnsLastPosition ==
    [][(IsAppend /\ ~last'.position.some /\ last'.n >= 1)
          => /\ last'.res = "OkSome"
             /\ last'.val = MemQueue_next_position(in_mem_queues[last'.queue])
                               + last'.n - 1
             /\ status' = "open"
             /\ range_all(in_mem_queues', last'.queue, debug_assertions).ok
             /\ LastRecords(range_all(in_mem_queues', last'.queue,
                                      debug_assertions).val, last'.n)
                   = [k \in 1..last'.n |->
                         [position |->
                             MemQueue_next_position(in_mem_queues[last'.queue]) + k - 1,
                          payload |->
                             Payload(appended'[last'.queue][
                                 MemQueue_next_position(in_mem_queues[last'.queue])
                                    + k - 1].v)]]]_vars

\* C8: append_records with an empty batch and a position that is None or
\* >= next_position(Q) returns Ok(None), writes no record to the log, persists
\* nothing and leaves Q unchanged.
C8_EmptyBatchIsNoOp ==
    [][(/\ IsAppend /\ last'.n = 0
        /\ last'.position.some
              => last'.position.v >= MemQueue_next_position(in_mem_queues[last'.queue]))
          => /\ last'.res = "OkNone"
             /\ writer' = writer
             /\ in_mem_queues' = in_mem_queues]_vars

\* an empty batch at a position ahead of next_position(Q) has returned
\* Ok(None) on a queue that holds records, with earlier writes still buffered
C8_Witness ==
    /\ status = "open" /\ last.op = "append_records" /\ queue_exists(last.queue)
    /\ last.n = 0 /\ last.res = "OkNone" /\ last.position.some
    /\ last.position.v > MemQueue_next_position(in_mem_queues[last.queue])
    /\ ~MemQueue_is_empty(in_mem_queues[last.queue])
    /\ Buffered(writer.log) > 0

\* the records an iteration over items yields: those before the first panic
RECURSIVE Yielded(_)
Yielded(items) ==
    IF items = <<>> \/ ~Head(items).ok
    THEN <<>>
    ELSE <<Head(items).val>> \o Yielded(Tail(items))

\* the records an iteration over range(Q, ..) yields
YieldedByRange(queue, debug) ==
    Yielded([k \in 1..Len(queue.record_metas) |-> range_item(queue, k - 1, debug)])

\* the positions of records increase strictly and lie in [start, next)
IncreasingWithin(records, start, next) ==
    \A k \in 1..Len(records) :
       /\ records[k].position \in start..next - 1
       /\ k > 1 => records[k - 1].position < records[k].position

\* C9: range(Q, ..) yields records with strictly increasing positions, all of
\* them in [start_position(Q), next_position(Q)).
C9_RangePositionsIncrease ==
    status = "open"
       => \A q \in Queues :
             queue_exists(q)
                => IncreasingWithin(YieldedByRange(in_mem_queues[q], debug_assertions),
                                    in_mem_queues[q].start_position,
                                    MemQueue_next_position(in_mem_queues[q]))

\* range(Q, ..) yields several records of a queue that starts after position 0
C9_Witness ==
    /\ status = "open"
    /\ \E q \in Queues :
          /\ queue_exists(q)
          /\ in_mem_queues[q].start_position > 0
          /\ Len(YieldedByRange(in_mem_queues[q], debug_assertions)) >= 2

\* the collected range r is the one record of position p
IsOneRecordAt(r, p) == r.ok /\ Len(r.val) = 1 /\ r.val[1].position = p

\* C10: for every position p in [start_position(Q), next_position(Q)),
\* range(Q, p..=p) returns exactly one record, and its position is p.
C10_RangeOfOnePosition ==
    status = "open"
       => \A q \in Queues :
             queue_exists(q)
                => \A p \in in_mem_queues[q].start_position
                               .. MemQueue_next_position(in_mem_queues[q]) - 1 :
                      IsOneRecordAt(range_incl(in_mem_queues, q, p, p, debug_assertions),
                                    p)

\* ------------------------------------------------------------------------
\* C11..C20
\* ------------------------------------------------------------------------
\* the step is a call of truncate on an existing queue
IsTruncate == nops' = nops + 1 /\ last'.op = "truncate" /\ queue_exists(last'.queue)

\* MultiRecordLog::range(queue, ..=hi)
range_to(qs, queue, hi, debug) ==
    MemQueue_range(qs[queue], Unbounded, Included(hi), debug)

\* MultiRecordLog::range(queue, lo..)
range_from(qs, queue, lo, debug) ==
    MemQueue_range(qs[queue], Included(lo), Unbounded, debug)

\* C11: after truncate(Q, p) with p < next_position(Q) - 1, range(Q, ..=p) is
\* empty and range(Q, (p+1)..) returns the records it returned before the call.
C11_TruncateKeepsLaterRecords ==
    [][(/\ IsTruncate
        /\ last'.position.v < MemQueue_next_position(in_mem_queues[last'.queue]) - 1
        /\ range_from(in_mem_queues, last'.queue, last'.position.v + 1,
                      debug_assertions).ok)
          => /\ status' = "open"
             /\ range_to(in_mem_queues', last'.queue, last'.position.v,
                         debug_assertions) = Ok(<<>>)
             /\ range_from(in_mem_queues', last'.queue, last'.position.v + 1,
                           debug_assertions)
                   = range_from(in_mem_queues, last'.queue, last'.position.v + 1,
                                debug_assertions)]_vars

\* C12: truncate(Q, p) with p at or beyond the last position of Q leaves Q empty
\* with start_position = next_position = p + 1.
C12_TruncateBeyondLastAdvances ==
    [][(/\ IsTruncate
        /\ last'.position.v + 1 >= MemQueue_next_position(in_mem_queues[last'.queue]))
          => /\ status' = "open"
             /\ MemQueue_is_empty(in_mem_queues'[last'.queue])
             /\ in_mem_queues'[last'.queue].start_position = last'.position.v + 1
             /\ MemQueue_next_position(in_mem_queues'[last'.queue])
                   = last'.position.v + 1]_vars

\* the number of records of the queue whose position is at most p
RecordsUpTo(queue, p) ==
    Cardinality({i \in 1..Len(queue.record_metas) : queue.start_position + i - 1 <= p})

PresentCount(qs, q, p, n) ==
    IF contains_queue(qs, q)
    THEN Cardinality({x \in p..p + n - 1 :
                         /\ qs[q].start_position <= x
                         /\ x < MemQueue_next_position(qs[q])})
    ELSE 0

\* the last record written to the log
LastWritten == writer.log[Len(writer.log)].rec

\* C14: append_records is atomic.  When the call returns, Ok or Err, the queue
\* has gained all of the records of the batch or none; and when the directory
\* is opened again after a stop, whatever part of the BufWriter was lost, the
\* queue holds all of the records of the last batch written or none of them.
C14_AppendIsAtomic ==
    [][/\ (IsAppend /\ status' = "open")
             => /\ Len(in_mem_queues'[last'.queue].record_metas)
                      - Len(in_mem_queues[last'.queue].record_metas) \in {0, last'.n}
                /\ last'.res = "OkSome"
                      => PresentCount(in_mem_queues', last'.queue,
                                      last'.val - last'.n + 1, last'.n) = last'.n
       /\ (/\ IsReopen /\ status' = "open"
           /\ writer.log # <<>> /\ LastWritten.type = "AppendRecords")
             => PresentCount(in_mem_queues', LastWritten.queue, LastWritten.position,
                             Len(LastWritten.records))
                   \in {0, Len(LastWritten.records)}]_vars

\* the directory was opened again and a batch of two records is in its queue
C14_Witness ==
    /\ status = "open" /\ last.op = "reopen" /\ last.res = "Ok"
    /\ writer.log # <<>> /\ LastWritten.type = "AppendRecords"
    /\ Len(LastWritten.records) = 2
    /\ PresentCount(in_mem_queues, LastWritten.queue, LastWritten.position, 2) = 2

\* the records of the log written for position p of queue q
WrittenAt(q, p) ==
    {i \in 1..Len(writer.log) :
        /\ writer.log[i].rec.type = "AppendRecords"
        /\ writer.log[i].rec.queue = q
        /\ p \in writer.log[i].rec.position
                    .. writer.log[i].rec.position + Len(writer.log[i].rec.records) - 1}

\* the positions queue q holds a record at
LivePositions(q) ==
    IF queue_exists(q)
    THEN in_mem_queues[q].start_position .. MemQueue_next_position(in_mem_queues[q]) - 1
    ELSE {}

\* C15: no file is unlinked while a queue holds a live record written in it:
\* for every live record, the file its frames were written in is still on
\* disk with the record in it.  A record written in the first slot of a file
\* is the record written right after a roll-over: it stands as well for the
\* record whose frames started in the file before and continue in this one.
C15_LiveRecordsKeepTheirFile ==
    status = "open"
       => \A q \in Queues : \A p \in LivePositions(q) :
             \E i \in WrittenAt(q, p) : writer.log[i].file \in writer.files

\* file 0 was unlinked and a queue holds a record that was written right after
\* a roll-over
C15_Witness ==
    /\ status = "open" /\ 0 \notin writer.files
    /\ \E q \in Queues : \E p \in LivePositions(q) : \E i \in WrittenAt(q, p) :
          /\ writer.log[i].file \in writer.files
          /\ \A j \in 1..i - 1 : writer.log[j].file # writer.log[i].file

\* the files the step unlinks
Unlinked == writer.files \ writer'.files

\* C16: GC removes files only as a prefix of the oldest files: every file a
\* step unlinks is older than every file it keeps, and every file older than
\* an unlinked file is unlinked with it; the file the writer writes to is not
\* unlinked, and the file tracker keeps at least one file.
C16_GcRemovesOldestPrefix ==
    [][/\ \A f \in Unlinked : \A g \in writer.files : g < f => g \in Unlinked
       /\ \A f \in Unlinked : \A g \in writer'.files : f < g
       /\ writer'.file_number \in writer'.files
       /\ writer'.files # {}]_vars

\* a truncate unlinked file 0 and left the file the writer is on
C16_Witness ==
    /\ status = "open" /\ last.op = "truncate" /\ last.res = "Ok"
    /\ 0 \notin writer.files /\ writer.file_number \in writer.files

\* the step is a call of truncate, delete_queue or open that returns Ok
ReturnsFromGc ==
    /\ nops' = nops + 1 /\ status' = "open"
    /\ last'.op \in {"truncate", "delete_queue", "reopen"} /\ last'.res = "Ok"

\* C17: when truncate, delete_queue or open returns, the oldest file on disk is
\* referenced by a live in-memory record or is the file the writer writes to.
C17_OldestFileIsInUse ==
    [][ReturnsFromGc
          => FileTracker_first(writer'.files)
                \in FilesOfQueues(in_mem_queues') \cup {writer'.file_number}]_vars

\* the file the writer is on when the call of the step reaches
\* run_gc_if_necessary: the one it has written its record to, or the one the
\* replay stopped on
GcStartFile ==
    IF last'.op = "reopen"
    THEN Replay(OnDisk(writer.log, last'.n), writer.files, 1, MemQueues_default,
                FileTracker_first(writer.files), 0, debug_assertions).file_number
    ELSE write_record(writer, DeleteQueueRec(last'.queue, 0)).file_number

\* C17 (amended): when truncate, delete_queue or open returns, the oldest file
\* on disk is referenced by a live in-memory record, is the file the writer
\* writes to, or is the file the writer was on when run_gc_if_necessary began,
\* which it holds a FileNumber of while it writes the positions of the empty
\* queues and unlinks.
C17_OldestFileIsInUseOrHeldByGc ==
    [][ReturnsFromGc
          => FileTracker_first(writer'.files)
                \in FilesOfQueues(in_mem_queues')
                       \cup {writer'.file_number, GcStartFile}]_vars

\* a truncate returned and the oldest file on disk is neither referenced by a
\* live record nor the file the writer writes to
C17_Witness ==
    /\ status = "open" /\ last.op = "truncate" /\ last.res = "Ok"
    /\ FileTracker_first(writer.files)
          \notin FilesOfQueues(in_mem_queues) \cup {writer.file_number}

\* the step is a call that unlinks at least one file and returns
UnlinksFiles == nops' = nops + 1 /\ status' = "open" /\ Unlinked # {}

\* the last record of the log about queue q is a RecordPosition record of its
\* next position, durable to the degree dur at least (1 flushed, 2 fsynced)
PositionRecorded(log, qs, q, dur) ==
    \E i \in 1..Len(log) :
       /\ log[i].rec = RecordPositionRec(q, MemQueue_next_position(qs[q]))
       /\ log[i].dur >= dur
       /\ \A j \in i + 1..Len(log) : log[j].rec.queue # q

\* C18: whenever GC unlinks at least one file, it has first written one
\* RecordPosition{queue, next_position} record for every queue that is empty
\* and has flushed and fsynced the log: the unlink leaves, for every empty
\* queue, that record as the last one about the queue, fsynced.
C18_PositionsFsyncedBeforeUnlink ==
    [][UnlinksFiles
          => \A q \in empty_queues(in_mem_queues') :
                PositionRecorded(writer'.log, in_mem_queues', q, 2)]_vars

\* every record of the log is on disk: flushed and fsynced
AllFsynced(log) == \A i \in 1..Len(log) : log[i].dur = 2

\* the step is a call of create_queue or delete_queue that returns Ok
IsCriticalCall ==
    /\ nops' = nops + 1
    /\ last'.op \in {"create_queue", "delete_queue"} /\ last'.res = "Ok"

\* C19: create_queue, delete_queue and the flush of the RecordPosition records
\* that precedes an unlink persist with FlushAndFsync whatever the policy:
\* when such a call returns, and when a call has unlinked files with a queue
\* empty, every record of the log is fsynced.
C19_CriticalOpsFsync ==
    [][/\ IsCriticalCall => AllFsynced(writer'.log)
       /\ (UnlinksFiles /\ last'.op # "reopen" /\ empty_queues(in_mem_queues') # {})
             => AllFsynced(writer'.log)]_vars

\* MultiRecordLog::delete_queue up to the call of Directory::gc: the writers
\* that gc may start from, the DeleteQueue record and the positions of the
\* empty queues written
delete_queue_before_gc(qs, w, state, queue) ==
    {record_empty_queues_position(
         write_record(w, DeleteQueueRec(queue, MemQueue_next_position(qs[queue]))),
         [qs EXCEPT ![queue] = NoQueue], state, order) :
        order \in Orders(empty_queues([qs EXCEPT ![queue] = NoQueue]))}

\* the DeleteQueue record of queue q is in the log w holds, fsynced
DeleteQueueIsDurable(w, q) ==
    \E i \in 1..Len(w.log) :
       /\ w.log[i].rec.type = "DeleteQueue" /\ w.log[i].rec.queue = q
       /\ w.log[i].dur = 2

\* the step is a call of delete_queue whose GC unlinks at least one file
IsDeleteUnlinking ==
    /\ nops' = nops + 1 /\ last'.op = "delete_queue" /\ last'.res = "Ok"
    /\ Unlinked # {}

\* C20: delete_queue makes the DeleteQueue record durable, flushed and fsynced,
\* before its GC unlinks a file: when Directory::gc starts to unlink, the
\* DeleteQueue record is not in the buffer of the writer any more but fsynced.
C20_DeleteDurableBeforeUnlink ==
    [][IsDeleteUnlinking
          => \A w \in delete_queue_before_gc(in_mem_queues, writer, next_persist,
                                             last'.queue) :
                DeleteQueueIsDurable(w, last'.queue)]_vars

\* ------------------------------------------------------------------------
\* C21..C30
\* ------------------------------------------------------------------------
\* SpecClock: the calls with the clock they read.  The clock ticks between the
\* calls and between the two reads of persist_on_policy.
\* number of ticks of the clock in a behaviour
MaxTime == 4
\* the interval of PersistPolicy::OnDelay, in ticks
Interval == 2

should_persist_at_deadline(state, t) == should_persist(state, next_sync <= t)

\* PersistState::should_persist reading the clock at t
should_persist_at(state, t) == should_persist(state, next_sync < t)

\* PersistState::update_persisted reading the clock at t
update_persisted(state, t) == IF state.kind = "OnDelay" THEN t + Interval ELSE next_sync

\* persist_on_policy on the clock: should_persist reads it at `now`,
\* update_persisted at `later`; reached tells whether the call got there
persist_on_policy_at(reached, later) ==
    /\ later \in now..Min(now + 1, MaxTime)
    /\ now' = later
    /\ next_sync' = IF reached /\ should_persist_at(next_persist, now)
                    THEN update_persisted(next_persist, later)
                    ELSE next_sync

\* From<PersistPolicy> for PersistState on open: next_sync is now + interval
InitClock ==
    InitLog /\ now = 0 /\ next_sync = Interval /\ NoCodec /\ NoRecordLog /\ NoMem

Tick ==
    /\ now < MaxTime
    /\ now' = now + 1
    /\ UNCHANGED <<debug_assertions, status, in_mem_queues, writer, next_persist, last,
                   nops, all_ok, appended, mem, history, next_sync, codec, recordlog>>

AppendRecordsAt(queue, payloads, later) ==
    /\ status = "open" /\ nops < MaxOps
    /\ \E o \in {append_records(in_mem_queues, writer, next_persist, queue, None,
                                payloads, next_sync < now)} :
          /\ Return("append_records", queue, None, Len(payloads), o)
          /\ appended' = Appended(queue, payloads, o)
          /\ persist_on_policy_at(o.w # writer, later)
    /\ UNCHANGED <<codec, recordlog, mem, history>>

TruncateAt(queue, position, later) ==
    /\ status = "open" /\ nops < MaxOps
    /\ \E o \in truncate(in_mem_queues, writer, next_persist, queue, position,
                         next_sync < now, debug_assertions) :
          /\ Return("truncate", queue, Some(position), 0, o)
          /\ persist_on_policy_at(o.res = "Ok", later)
    /\ UNCHANGED <<appended, mem, history, codec, recordlog>>

NextClock ==
    \/ Tick
    \/ \E queue \in Queues : CreateQueue(queue)
    \/ \E queue \in Queues, payloads \in Batches, later \in 0..MaxTime :
          AppendRecordsAt(queue, payloads, later)
    \/ \E queue \in Queues, position \in 0..MaxPos, later \in 0..MaxTime :
          TruncateAt(queue, position, later)

SpecClock == InitClock /\ [][NextClock]_vars

\* C21: after each successful append_records or truncate the log is persisted
\* by policy exactly when the policy is Always, or it is OnDelay and the clock
\* is at or after next_sync, and then next_sync is set to the clock plus the
\* interval; under DoNothing no append or truncate persists.  (A truncate whose
\* GC unlinks files persists for the GC, and is left out.)
C21_PersistedByPolicy ==
    [][(\/ IsAppend /\ last'.res = "OkSome"
        \/ IsTruncate /\ last'.res = "Ok" /\ Unlinked = {})
          => /\ writer'.log[Len(writer'.log)].dur >= 1
                   <=> \/ next_persist.kind = "OnAppend"
                       \/ next_persist.kind = "OnDelay" /\ now >= next_sync
             /\ (next_persist.kind = "OnDelay" /\ now >= next_sync)
                   => next_sync' = now' + Interval
             /\ (next_persist.kind = "OnDelay" /\ now < next_sync)
                   => next_sync' = next_sync]_vars

\* C21, as the code has it: the OnDelay policy persists when the clock is
\* strictly after next_sync, and not at next_sync itself.
C21_PersistedByPolicyAfterNextSync ==
    [][(\/ IsAppend /\ last'.res = "OkSome"
        \/ IsTruncate /\ last'.res = "Ok" /\ Unlinked = {})
          => /\ writer'.log[Len(writer'.log)].dur >= 1
                   <=> \/ next_persist.kind = "OnAppend"
                       \/ next_persist.kind = "OnDelay" /\ now > next_sync
             /\ (next_persist.kind = "OnDelay" /\ now > next_sync)
                   => next_sync' = now' + Interval
             /\ (next_persist.kind = "OnDelay" /\ now <= next_sync)
                   => next_sync' = next_sync]_vars

C21_Witness ==
    /\ last.op = "append_records" /\ last.res = "OkSome"
    /\ next_persist.kind = "OnDelay"
    /\ writer.log[Len(writer.log)].dur >= 1
    /\ next_sync > Interval

\* ------------------------------------------------------------------------
\* record.rs: the bytes of the multiplexed records (SpecCodec)
\* ------------------------------------------------------------------------
\* A u64 is four 16-bit limbs, the least significant first; bytes are 0..255.
u64_from(n) == <<n % 65536, n \div 65536, 0, 0>>
u64_MAX == <<65535, 65535, 65535, 65535>>

\* u64 + 1: [overflow, v], v the wrapped sum
u64_add_one(x) ==
    LET c1 == x[1] = 65535
        c2 == c1 /\ x[2] = 65535
        c3 == c2 /\ x[3] = 65535
    IN  [overflow |-> x = u64_MAX,
         v |-> <<(x[1] + 1) % 65536,
                 IF c1 THEN (x[2] + 1) % 65536 ELSE x[2],
                 IF c2 THEN (x[3] + 1) % 65536 ELSE x[3],
                 IF c3 THEN (x[4] + 1) % 65536 ELSE x[4]>>]

\* u64::to_le_bytes
u64_to_le_bytes(x) ==
    [i \in 1..8 |-> IF i % 2 = 1 THEN x[(i + 1) \div 2] % 256 ELSE x[i \div 2] \div 256]

\* u64::from_le_bytes
u64_from_le_bytes(b) == [i \in 1..4 |-> b[2 * i - 1] + 256 * b[2 * i]]

\* u16::to_le_bytes of (n as u16)
u16_to_le_bytes(n) == <<(n % 65536) % 256, (n % 65536) \div 256>>

\* u16::from_le_bytes
u16_from_le_bytes(b) == b[1] + 256 * b[2]

\* u32::to_le_bytes, for the lengths of the model (below 2^16)
u32_to_le_bytes(n) == <<n % 256, n \div 256, 0, 0>>

\* u32::from_le_bytes as usize, for the lengths of the model; the two high
\* bytes count as a length no buffer of the model has
u32_from_le_bytes(b) == IF b[3] = 0 /\ b[4] = 0 THEN b[1] + 256 * b[2] ELSE 65536 * 256

\* MultiRecord::serialize_with_pos over (position..).zip(record_payloads), from
\* payload i: [ok, buffer].  The range steps past the position it yields before
\* the payload is looked at: at u64::MAX the step overflows, a panic where
\* overflow is checked (debug) and a wrap where it is not.
RECURSIVE serialize_with_pos(_, _, _, _, _)
serialize_with_pos(record_payloads, position, i, output, debug) ==
    IF u64_add_one(position).overflow /\ debug
    THEN [ok |-> FALSE, buffer |-> output]
    ELSE IF i > Len(record_payloads)
    THEN [ok |-> TRUE, buffer |-> output]
    ELSE serialize_with_pos(record_payloads, u64_add_one(position).v, i + 1,
                            output \o u64_to_le_bytes(position)
                                   \o u32_to_le_bytes(Len(record_payloads[i]))
                                   \o record_payloads[i],
                            debug)

\* MultiRecord::serialize
MultiRecord_serialize_bytes(record_payloads, position, debug) ==
    serialize_with_pos(record_payloads, position, 1, <<>>, debug)

\* Iterator::next of MultiRecord at byte_offset: [kind, byte_offset, position,
\* payload], kind "None", "Err" or "Ok"
MultiRecord_next(buffer, byte_offset) ==
    LET rest == SubSeq(buffer, byte_offset + 1, Len(buffer))
        body == SubSeq(rest, 13, Len(rest))
        len == u32_from_le_bytes(SubSeq(rest, 9, 12))
        NoItem(kind, offset) ==
            [kind |-> kind, byte_offset |-> offset, position |-> u64_from(0),
             payload |-> <<>>]
    IN  IF byte_offset = Len(buffer) THEN NoItem("None", byte_offset)
        ELSE IF Len(rest) < 12 THEN NoItem("Err", Len(rest))
        ELSE IF Len(body) < len THEN NoItem("Err", Len(body))
        ELSE [kind |-> "Ok", byte_offset |-> byte_offset + 12 + len,
              position |-> u64_from_le_bytes(SubSeq(rest, 1, 8)),
              payload |-> SubSeq(body, 1, len)]

\* the items a MultiRecord yields from byte_offset, up to its first error:
\* a sequence of [ok, position, payload]
RECURSIVE MultiRecord_items(_, _)
MultiRecord_items_after(buffer, item) ==
    CASE item.kind = "None" -> <<>>
      [] item.kind = "Err" -> <<[ok |-> FALSE, position |-> item.position, payload |-> <<>>]>>
      [] OTHER -> <<[ok |-> TRUE, position |-> item.position, payload |-> item.payload]>>
                  \o MultiRecord_items(buffer, item.byte_offset)

MultiRecord_items(buffer, byte_offset) ==
    MultiRecord_items_after(buffer, MultiRecord_next(buffer, byte_offset))

\* MultiRecord::new: Ok exactly when no item is an error
MultiRecord_new(buffer) == \A i \in DOMAIN MultiRecord_items(buffer, 0) : MultiRecord_items(buffer, 0)[i].ok

\* RecordType as u8, and TryFrom<u8> for RecordType (0: Err)
RecordType_as_u8(type) ==
    CASE type = "Truncate" -> 1 [] type = "RecordPosition" -> 2
      [] type = "DeleteQueue" -> 3 [] OTHER -> 4

RecordType_try_from(code) ==
    CASE code = 1 -> Some("Truncate") [] code = 2 -> Some("RecordPosition")
      [] code = 3 -> Some("DeleteQueue") [] code = 4 -> Some("AppendRecords")
      [] OTHER -> None

\* fn serialize(record_type, position, queue, payload, buffer)
serialize(record_type, position, queue, payload) ==
    <<RecordType_as_u8(record_type)>> \o u64_to_le_bytes(position)
        \o u16_to_le_bytes(Len(queue)) \o queue \o payload

\* MultiPlexedRecord::serialize; a record is [type, queue, position, records],
\* queue the bytes of the name, position a u64 (the end of truncate_range for
\* Truncate), records the buffer of the MultiRecord
MultiPlexedRecord_serialize(record) ==
    serialize(record.type, record.position, record.queue,
              IF record.type = "AppendRecords" THEN record.records ELSE <<>>)

\* std::str::from_utf8: the names of the model are ASCII
from_utf8(queue_bytes) == \A i \in DOMAIN queue_bytes : queue_bytes[i] < 128

\* MultiPlexedRecord::deserialize: Some(record) or None
MultiPlexedRecord_deserialize(buffer) ==
    LET header == SubSeq(buffer, 1, 11)
        body == SubSeq(buffer, 12, Len(buffer))
        enum_tag == RecordType_try_from(header[1])
        queue_len == u16_from_le_bytes(SubSeq(header, 10, 11))
        payload == SubSeq(body, queue_len + 1, Len(body))
    IN  IF Len(buffer) < 11 THEN None
        ELSE IF ~enum_tag.some THEN None
        ELSE IF Len(body) < queue_len THEN None
        ELSE IF ~from_utf8(SubSeq(body, 1, queue_len)) THEN None
        ELSE IF enum_tag.v = "AppendRecords" /\ ~MultiRecord_new(payload) THEN None
        ELSE Some([type |-> enum_tag.v,
                   queue |-> SubSeq(body, 1, queue_len),
                   position |-> u64_from_le_bytes(SubSeq(header, 2, 9)),
                   records |-> IF enum_tag.v = "AppendRecords" THEN payload ELSE <<>>])

\* the longest queue name serialize accepts, u16::MAX
U16_MAX == 65535

\* the records of SpecCodec: every type, queue names of 0, 1, 2 and u16::MAX
\* bytes, positions around the limbs and the end of u64, and up to MaxBatch
\* payloads of 0, 1 and 3 bytes
CodecTypes == {"AppendRecords", "Truncate", "RecordPosition", "DeleteQueue"}
CodecQueues == {<<>>, <<113>>, <<113, 49>>, [i \in 1..U16_MAX |-> 113]}
CodecPositions ==
    {u64_from(0), u64_from(1), u64_from(65535), u64_from(65536),
     <<65534, 65535, 65535, 65535>>, u64_MAX}
CodecPayloads == UNION {[1..k -> {<<>>, <<7>>, <<1, 2, 3>>}] : k \in 0..MaxBatch}

\* the inputs of test_proptest_multiplexed_record_roundtrip; only an
\* AppendRecords record has payloads
InitCodec ==
    /\ InitLog /\ NoClock /\ NoRecordLog /\ NoMem
    /\ \E type \in CodecTypes, queue \in CodecQueues, position \in CodecPositions :
       \E payloads \in IF type = "AppendRecords" THEN CodecPayloads ELSE {<<>>} :
          codec = [step |-> "input", type |-> type, queue |-> queue,
                   position |-> position, payloads |-> payloads, buffer |-> <<>>,
                   bytes |-> <<>>, deser |-> None, items |-> <<>>]

\* MultiRecord::serialize(payloads, position, &mut buffer)
SerializeMultiRecord ==
    /\ codec.step = "input" /\ codec.type = "AppendRecords"
    /\ \E r \in {MultiRecord_serialize_bytes(codec.payloads, codec.position,
                                             debug_assertions)} :
          codec' = [codec EXCEPT !.step = IF r.ok THEN "multirecord" ELSE "panic",
                                 !.buffer = r.buffer]
    /\ UNCHANGED <<debug_assertions, status, in_mem_queues, writer, next_persist, last,
                   nops, all_ok, appended, mem, history, clock, recordlog>>

\* the record the test builds: records is the buffer of the MultiRecord
CodecRecord ==
    [type |-> codec.type, queue |-> codec.queue, position |-> codec.position,
     records |-> IF codec.type = "AppendRecords" THEN codec.buffer ELSE <<>>]

\* record.serialize(&mut buffer)
SerializeRecord ==
    /\ \/ codec.step = "multirecord"
       \/ codec.step = "input" /\ codec.type # "AppendRecords"
    /\ codec' = [codec EXCEPT !.step = "serialized",
                              !.bytes = MultiPlexedRecord_serialize(CodecRecord)]
    /\ UNCHANGED <<debug_assertions, status, in_mem_queues, writer, next_persist, last,
                   nops, all_ok, appended, mem, history, clock, recordlog>>

\* MultiPlexedRecord::deserialize(&buffer), and the iteration over its records
DeserializeRecord ==
    /\ codec.step = "serialized"
    /\ \E d \in {MultiPlexedRecord_deserialize(codec.bytes)} :
          codec' = [codec EXCEPT !.step = "deserialized",
                                 !.deser = d,
                                 !.items = IF d.some /\ d.v.type = "AppendRecords"
                                           THEN MultiRecord_items(d.v.records, 0)
                                           ELSE <<>>]
    /\ UNCHANGED <<debug_assertions, status, in_mem_queues, writer, next_persist, last,
                   nops, all_ok, appended, mem, history, clock, recordlog>>

NextCodec == SerializeMultiRecord \/ SerializeRecord \/ DeserializeRecord

SpecCodec == InitCodec /\ [][NextCodec]_vars

\* position + k in u64: [overflow, v]
RECURSIVE u64_plus(_, _)
u64_plus(x, k) ==
    IF k = 0 THEN [overflow |-> FALSE, v |-> x]
    ELSE IF u64_add_one(x).overflow THEN [overflow |-> TRUE, v |-> x]
    ELSE u64_plus(u64_add_one(x).v, k - 1)

\* C28: every multiplexed record, of any type, u64 position, queue name of at
\* most 65535 bytes and list of payloads, is serialized, and deserializing the
\* bytes gives the record back; the sub-records of an AppendRecords record are
\* the payloads, in order, at position, position + 1, ...
C28_RecordRoundTrip ==
    /\ codec.step # "panic"
    /\ codec.step = "deserialized" =>
          /\ codec.deser = Some(CodecRecord)
          /\ codec.type = "AppendRecords" =>
                /\ Len(codec.items) = Len(codec.payloads)
                /\ \A i \in DOMAIN codec.items :
                      /\ ~u64_plus(codec.position, i - 1).overflow
                      /\ codec.items[i] = [ok |-> TRUE,
                                           position |-> u64_plus(codec.position, i - 1).v,
                                           payload |-> codec.payloads[i]]

\* ------------------------------------------------------------------------
\* frame/, recordlog/, block_read_write.rs: records as frames in blocks of
\* bytes (SpecRecordLog, SpecOpen)
\* ------------------------------------------------------------------------
HEADER_LEN == 7
\* BLOCK_NUM_BYTES of the model; the code's is 32 768
BlockBytes == 16

Zeros(n) == [i \in 1..n |-> 0]

\* crc32 as the four little-endian bytes of the checksum; the checksum of the
\* model is a polynomial in the bytes, 0 for no byte as crc32's is
RECURSIVE crc32_over(_, _)
crc32_over(data, n) ==
    IF n = 0 THEN 0 ELSE (crc32_over(data, n - 1) * 257 + data[n] + 1) % 1000003

crc32(data) ==
    <<crc32_over(data, Len(data)) % 256, (crc32_over(data, Len(data)) \div 256) % 256,
      crc32_over(data, Len(data)) \div 65536, 0>>

FrameType_to_u8(t) ==
    CASE t = "Full" -> 1 [] t = "First" -> 2 [] t = "Middle" -> 3 [] OTHER -> 4

FrameType_from_u8(b) ==
    CASE b = 1 -> Some("Full") [] b = 2 -> Some("First") [] b = 3 -> Some("Middle")
      [] b = 4 -> Some("Last") [] OTHER -> None

\* Header::for_payload(frame_type, payload).serialize(dest)
Header_serialize(t, frame_payload) ==
    crc32(frame_payload) \o u16_to_le_bytes(Len(frame_payload)) \o <<FrameType_to_u8(t)>>

\* Header::deserialize: Some([checksum, len, frame_type]) or None
Header_deserialize(data) ==
    IF FrameType_from_u8(data[7]).some
    THEN Some([checksum |-> SubSeq(data, 1, 4),
               len |-> u16_from_le_bytes(SubSeq(data, 5, 6)),
               frame_type |-> FrameType_from_u8(data[7]).v])
    ELSE None

\* block_read_write.rs: VecBlockWriter, [cursor, buffer]
ceil_to_block(len) == BlockBytes * ((len + BlockBytes - 1) \div BlockBytes)

num_bytes_remaining_in_block(w) == BlockBytes - (w.cursor % BlockBytes)

\* VecBlockWriter::write
VecBlockWriter_write(w, buf) ==
    LET new_len == IF w.cursor + Len(buf) > Len(w.buffer)
                   THEN ceil_to_block((w.cursor + Len(buf)) * 2 + 1)
                   ELSE Len(w.buffer)
    IN  [cursor |-> w.cursor + Len(buf),
         buffer |-> [i \in 1..new_len |->
                        IF i > w.cursor /\ i <= w.cursor + Len(buf) THEN buf[i - w.cursor]
                        ELSE IF i <= Len(w.buffer) THEN w.buffer[i]
                        ELSE 0]]

\* FrameWriter::write_frame, w the block writer padded to the next block when
\* fewer than HEADER_LEN bytes remain in this one
write_frame_padded(w, t, frame_payload) ==
    VecBlockWriter_write(w, Header_serialize(t, frame_payload) \o frame_payload)

FrameWriter_write_frame(w, t, frame_payload) ==
    write_frame_padded(IF num_bytes_remaining_in_block(w) < HEADER_LEN
                       THEN VecBlockWriter_write(w, Zeros(num_bytes_remaining_in_block(w)))
                       ELSE w,
                       t, frame_payload)

\* max_writable_frame_length without the room of the header
max_writable_frame_length_no_header(w) == num_bytes_remaining_in_block(w)

\* FrameWriter::max_writable_frame_length
max_writable_frame_length(w) ==
    IF num_bytes_remaining_in_block(w) >= HEADER_LEN
    THEN num_bytes_remaining_in_block(w) - HEADER_LEN
    ELSE BlockBytes - HEADER_LEN

\* recordlog/writer.rs: fn frame_type
frame_type(is_first_frame, is_last_frame) ==
    CASE is_first_frame /\ is_last_frame -> "Full"
      [] is_first_frame -> "First"
      [] is_last_frame -> "Last"
      [] OTHER -> "Middle"

\* the loop of RecordWriter::write_record on what is left of the record
RECURSIVE write_frames(_, _, _, _)
write_frames_after(w, rest) ==
    write_frames(w, rest, FALSE, Min(max_writable_frame_length(w), Len(rest)))

write_frames(w, rest, is_first_frame, frame_payload_len) ==
    IF frame_payload_len = Len(rest)
    THEN FrameWriter_write_frame(w, frame_type(is_first_frame, TRUE), rest)
    ELSE write_frames_after(
             FrameWriter_write_frame(w, frame_type(is_first_frame, FALSE),
                                     SubSeq(rest, 1, frame_payload_len)),
             SubSeq(rest, frame_payload_len + 1, Len(rest)))

\* RecordWriter::write_record
RecordWriter_write_record(w, record) ==
    write_frames(w, record, TRUE, Min(max_writable_frame_length(w), Len(record)))

\* the calls of BlockWrite::write that FrameWriter::write_frame makes, each
\* [at, len, remaining, frame]: where the bytes go, how many, what
\* num_bytes_remaining_in_block is when write asserts, whether the bytes are a
\* frame or the zeros before it
write_frame_calls(w, frame_payload) ==
    IF num_bytes_remaining_in_block(w) < HEADER_LEN
    THEN <<[at |-> w.cursor, len |-> num_bytes_remaining_in_block(w),
            remaining |-> num_bytes_remaining_in_block(w), frame |-> FALSE],
           [at |-> w.cursor + num_bytes_remaining_in_block(w),
            len |-> HEADER_LEN + Len(frame_payload),
            remaining |-> BlockBytes, frame |-> TRUE]>>
    ELSE <<[at |-> w.cursor, len |-> HEADER_LEN + Len(frame_payload),
            remaining |-> num_bytes_remaining_in_block(w), frame |-> TRUE]>>

\* the calls of BlockWrite::write in the loop of RecordWriter::write_record
RECURSIVE write_record_calls(_, _, _)
write_record_calls(w, rest, is_first_frame) ==
    LET frame_payload_len == Min(max_writable_frame_length(w), Len(rest))
    IN  write_frame_calls(w, SubSeq(rest, 1, frame_payload_len))
        \o IF frame_payload_len = Len(rest)
           THEN <<>>
           ELSE write_record_calls(
                    FrameWriter_write_frame(w, frame_type(is_first_frame, FALSE),
                                            SubSeq(rest, 1, frame_payload_len)),
                    SubSeq(rest, frame_payload_len + 1, Len(rest)), FALSE)

\* The reader: [block_id, cursor, block_corrupted, within_record,
\* record_buffer].  block_id is the block the block reader is on, the others
\* are the fields of FrameReader and RecordReader.
\* BlockRead::block
current_block(data, rd) ==
    SubSeq(data, rd.block_id * BlockBytes + 1, (rd.block_id + 1) * BlockBytes)

\* BlockRead::next_block: "true", "false" (no further block: the block stays
\* what it was) or "Err" (the read failed, which fails tells)
BlockRead_next_block(data, rd, fails) ==
    IF fails THEN [res |-> "Err", rd |-> rd]
    ELSE IF (rd.block_id + 2) * BlockBytes <= Len(data)
    THEN [res |-> "true", rd |-> [rd EXCEPT !.block_id = @ + 1]]
    ELSE [res |-> "false", rd |-> rd]

\* FrameReader::go_to_next_block_if_necessary, nb what next_block returned
went_to_next_block(nb) ==
    IF nb.res = "Err"
    THEN [ok |-> FALSE, rd |-> nb.rd]
    ELSE [ok |-> TRUE, rd |-> [nb.rd EXCEPT !.cursor = 0, !.block_corrupted = FALSE]]

go_to_next_block_if_necessary(data, rd, fails) ==
    IF ~(rd.block_corrupted \/ BlockBytes - rd.cursor < HEADER_LEN)
    THEN [ok |-> TRUE, rd |-> rd]
    ELSE went_to_next_block(BlockRead_next_block(data, rd, fails))

\* read_frame with the block given up on a wrong CRC as well
read_frame_after_header_dropping_block(blk, h, rd) ==
    IF ~h.some \/ rd.cursor + h.v.len > BlockBytes
    THEN [res |-> "Corruption", frame_type |-> "", payload |-> <<>>,
          rd |-> [rd EXCEPT !.block_corrupted = TRUE]]
    ELSE IF crc32(SubSeq(blk, rd.cursor + 1, rd.cursor + h.v.len)) # h.v.checksum
    THEN [res |-> "Corruption", frame_type |-> "", payload |-> <<>>,
          rd |-> [rd EXCEPT !.cursor = @ + h.v.len, !.block_corrupted = TRUE]]
    ELSE [res |-> "Frame", frame_type |-> h.v.frame_type,
          payload |-> SubSeq(blk, rd.cursor + 1, rd.cursor + h.v.len),
          rd |-> [rd EXCEPT !.cursor = @ + h.v.len]]

\* FrameReader::read_frame from the header on, h what Header::deserialize gave
\* and rd the reader past the header: [res, frame_type, payload, rd]
read_frame_after_header(blk, h, rd) ==
    LET NoFrame(res, after) ==
            [res |-> res, frame_type |-> "", payload |-> <<>>, rd |-> after]
        frame_payload == SubSeq(blk, rd.cursor + 1, rd.cursor + h.v.len)
    IN  IF ~h.some
        THEN NoFrame("Corruption", [rd EXCEPT !.block_corrupted = TRUE])
        ELSE IF rd.cursor + h.v.len > BlockBytes
        THEN NoFrame("Corruption", [rd EXCEPT !.block_corrupted = TRUE])
        ELSE IF crc32(frame_payload) # h.v.checksum
        THEN NoFrame("Corruption", [rd EXCEPT !.cursor = @ + h.v.len])
        ELSE [res |-> "Frame", frame_type |-> h.v.frame_type, payload |-> frame_payload,
              rd |-> [rd EXCEPT !.cursor = @ + h.v.len]]

\* FrameReader::get_frame_header and the rest of read_frame, on the block blk
read_frame_in_block(blk, rd) ==
    IF SubSeq(blk, rd.cursor + 1, rd.cursor + HEADER_LEN) = Zeros(HEADER_LEN)
    THEN [res |-> "NotAvailable", frame_type |-> "", payload |-> <<>>, rd |-> rd]
    ELSE read_frame_after_header(
             blk, Header_deserialize(SubSeq(blk, rd.cursor + 1, rd.cursor + HEADER_LEN)),
             [rd EXCEPT !.cursor = @ + HEADER_LEN])

\* FrameReader::read_frame, g what go_to_next_block_if_necessary returned
read_frame_from(data, g) ==
    IF ~g.ok
    THEN [res |-> "IoError", frame_type |-> "", payload |-> <<>>, rd |-> g.rd]
    ELSE read_frame_in_block(current_block(data, g.rd), g.rd)

FrameReader_read_frame(data, rd, fails) ==
    read_frame_from(data, go_to_next_block_if_necessary(data, rd, fails))

\* RecordReader::go_next: [res, rd], res "true", "false", "Corruption",
\* "IoError", or "Hang" when the loop comes back to a reader it has been in
\* (seen), and so never returns
RECURSIVE RecordReader_go_next(_, _, _, _)
\* the loop with within_record left as it is when read_frame fails
go_next_after_frame_keeping(data, f, fails, seen) ==
    LET first == f.res = "Frame" /\ is_first_frame_of_record(f.frame_type)
        within == first \/ f.rd.within_record
        buffered == IF within
                    THEN (IF first THEN <<>> ELSE f.rd.record_buffer) \o f.payload
                    ELSE f.rd.record_buffer
    IN  CASE f.res = "Frame" /\ within /\ is_last_frame_of_record(f.frame_type) ->
                [res |-> "true",
                 rd |-> [f.rd EXCEPT !.within_record = FALSE, !.record_buffer = buffered]]
          [] f.res = "Frame" ->
                RecordReader_go_next(data, [f.rd EXCEPT !.within_record = within,
                                                        !.record_buffer = buffered],
                                     fails, seen)
          [] f.res = "NotAvailable" -> [res |-> "false", rd |-> f.rd]
          [] OTHER -> [res |-> f.res, rd |-> f.rd]

\* the loop after read_frame returned f
go_next_after_frame(data, f, fails, seen) ==
    LET first == f.res = "Frame" /\ is_first_frame_of_record(f.frame_type)
        within == first \/ f.rd.within_record
        buffered == IF within
                    THEN (IF first THEN <<>> ELSE f.rd.record_buffer) \o f.payload
                    ELSE f.rd.record_buffer
    IN  CASE f.res = "Frame" /\ within /\ is_last_frame_of_record(f.frame_type) ->
                [res |-> "true",
                 rd |-> [f.rd EXCEPT !.within_record = FALSE, !.record_buffer = buffered]]
          [] f.res = "Frame" ->
                RecordReader_go_next(data, [f.rd EXCEPT !.within_record = within,
                                                        !.record_buffer = buffered],
                                     fails, seen)
          [] f.res = "NotAvailable" -> [res |-> "false", rd |-> f.rd]
          [] OTHER -> [res |-> f.res, rd |-> [f.rd EXCEPT !.within_record = FALSE]]

RecordReader_go_next(data, rd, fails, seen) ==
    IF <<rd.block_id, rd.cursor, rd.block_corrupted, rd.within_record>> \in seen
    THEN [res |-> "Hang", rd |-> rd]
    ELSE go_next_after_frame(
             data, FrameReader_read_frame(data, rd, fails), fails,
             seen \cup {<<rd.block_id, rd.cursor, rd.block_corrupted, rd.within_record>>})

\* what the calls of FrameReader::read_frame returned from the reader rd until
\* one is no frame, or the reader is where go_next left it with a record
\* (g.rd), each [res, frame_type, payload,
\* went, record]; the last one has in went what go_next returned and in record
\* the record_buffer
RECURSIVE frames_read(_, _, _, _)
frames_read(data, rd, g, fails) ==
    LET f == FrameReader_read_frame(data, rd, fails)
        ends == \/ f.res # "Frame"
                \/ /\ g.res = "true"
                   /\ f.rd.block_id = g.rd.block_id
                   /\ f.rd.cursor = g.rd.cursor
                   /\ f.rd.block_corrupted = g.rd.block_corrupted
    IN  <<[res |-> f.res, frame_type |-> f.frame_type, payload |-> f.payload,
           went |-> IF ends THEN g.res ELSE "",
           record |-> IF ends THEN g.rd.record_buffer ELSE <<>>]>>
        \o IF ends THEN <<>> ELSE frames_read(data, f.rd, g, fails)

\* SpecRecordLog: records written with RecordWriter::in_memory() are read back
\* from the bytes of its VecBlockWriter, as the tests of recordlog do.
\* the number of records written
MaxRecords == 3

\* the lengths of the records: none, one byte, a frame that leaves exactly
\* HEADER_LEN bytes in an empty block, one that leaves one byte less, one that
\* fills the block, one byte more than that, and two blocks
RecordLens ==
    {0, 1, BlockBytes - 2 * HEADER_LEN, BlockBytes - 2 * HEADER_LEN + 1,
     BlockBytes - HEADER_LEN, BlockBytes - HEADER_LEN + 1, 2 * BlockBytes}

\* FrameReader::open, RecordReader::open
RecordReader_open ==
    [block_id |-> 0, cursor |-> 0, block_corrupted |-> FALSE, within_record |-> FALSE,
     record_buffer |-> <<>>]

InitRecordLog ==
    /\ InitLog /\ NoClock /\ NoCodec /\ NoMem
    /\ wrt = [cursor |-> 0, buffer |-> <<>>]
    /\ wrote = <<>>
    /\ reader = RecordReader_open
    /\ returned = <<>>
    /\ stage = "writing"
    /\ damaged = -1

\* writer.write_record(record): record number k of len bytes is len times k
WriteRecord(len) ==
    /\ stage = "writing" /\ Len(wrote) < MaxRecords
    /\ \E record \in {[i \in 1..len |-> Len(wrote) + 1]} :
          /\ wrt' = RecordWriter_write_record(wrt, record)
          /\ wrote' = Append(wrote, record)
          /\ history' = history \o write_record_calls(wrt, record, TRUE)
    /\ UNCHANGED <<debug_assertions, status, in_mem_queues, writer, next_persist, last,
                   nops, all_ok, appended, mem, clock, codec, reader, returned, stage, damaged>>

\* RecordReader::open(ArrayReader::from(&buffer[..])), which asserts that the
\* buffer holds a block
StartReading ==
    /\ stage = "writing" /\ Len(wrt.buffer) >= BlockBytes
    /\ stage' = "reading"
    /\ reader' = RecordReader_open
    /\ UNCHANGED <<debug_assertions, status, in_mem_queues, writer, next_persist, last,
                   nops, all_ok, appended, mem, history, clock, codec, wrt, wrote, returned, damaged>>

\* reader.read_record(): go_next, and the record in record_buffer.  The reading
\* ends when it returns "no more record", or when it never returns; the model
\* stops it when it has returned twice the records written.
ReadRecord ==
    /\ stage = "reading" /\ Len(returned) <= 2 * MaxRecords
    /\ \E r \in {RecordReader_go_next(wrt.buffer, reader, FALSE, {})} :
          /\ reader' = r.rd
          /\ returned' = Append(returned, [res |-> r.res,
                                           record |-> IF r.res = "true"
                                                      THEN r.rd.record_buffer ELSE <<>>])
          /\ stage' = CASE r.res = "false" -> "done"
                        [] r.res = "Hang" -> "hang"
                        [] OTHER -> "reading"
    /\ UNCHANGED <<debug_assertions, status, in_mem_queues, writer, next_persist, last,
                   nops, all_ok, appended, mem, history, clock, codec, wrt, wrote, damaged>>

NextRecordLog == (\E len \in RecordLens : WriteRecord(len)) \/ StartReading \/ ReadRecord

SpecRecordLog == InitRecordLog /\ [][NextRecordLog]_vars

\* C29: the records written with RecordWriter::write_record are read back by
\* RecordReader in order, each with the bytes written, and then it returns "no
\* more record": whatever their lengths, empty records, records over several
\* blocks, fewer than HEADER_LEN bytes or exactly HEADER_LEN bytes left in a
\* block included
C29_ReadsBackWhatWasWritten ==
    /\ stage # "hang"
    /\ Len(returned) <= Len(wrote) + 1
    /\ \A i \in DOMAIN returned :
          returned[i] = IF i <= Len(wrote)
                        THEN [res |-> "true", record |-> wrote[i]]
                        ELSE [res |-> "false", record |-> <<>>]

\* ------------------------------------------------------------------------
\* SpecOpen: a log of one queue written to blocks of bytes, one block of which
\* may be overwritten, is read by the loop of open_with_prefs.  The blocks of
\* the files are the data the reader goes through, one after the other.
\* ------------------------------------------------------------------------
\* str::as_bytes of the queue names, and the queue that bytes name
as_bytes(queue) == IF queue = "q1" THEN <<113, 49>> ELSE <<113, 50>>
queue_named(bytes) == CHOOSE q \in Queues : as_bytes(q) = bytes

\* a position of the model as u64 is u64_from; back (the two high limbs are 0)
u64_value(x) == x[1] + 65536 * x[2]

\* the bytes record.serialize() gives for a record of the log
RecordBytes(rec) ==
    MultiPlexedRecord_serialize(
        [type |-> rec.type, queue |-> as_bytes(rec.queue),
         position |-> u64_from(rec.position),
         records |-> MultiRecord_serialize_bytes(
                         [i \in DOMAIN rec.records |-> rec.records[i].payload],
                         u64_from(rec.position), FALSE).buffer])

\* the record open_with_prefs matches on, from the one deserialize returned
Demultiplexed(rec, items) ==
    [type |-> rec.type, queue |-> queue_named(rec.queue),
     position |-> u64_value(rec.position),
     records |-> [i \in DOMAIN items |-> [position |-> u64_value(items[i].position),
                                          payload |-> items[i].payload]]]

\* the first block a record written at w has bytes in
FirstBlock(w) ==
    IF num_bytes_remaining_in_block(w) < HEADER_LEN
    THEN w.cursor \div BlockBytes + 1
    ELSE w.cursor \div BlockBytes

\* the number of times the log is opened
MaxOpens == 2

\* record_log_writer.write_record(record), noted in wrote with its blocks and
\* the number of times the log had been opened
WriteToLog(rec) ==
    /\ wrt' = RecordWriter_write_record(wrt, RecordBytes(rec))
    /\ wrote' = Append(wrote, [rec |-> rec, from |-> FirstBlock(wrt),
                               to |-> (wrt'.cursor - 1) \div BlockBytes,
                               opens |-> nops])

\* MultiRecordLog::open(path), which is open_with_prefs with Always(Flush)
InitOpen ==
    /\ InitLog /\ NoClock /\ NoCodec /\ NoMem
    /\ next_persist = [kind |-> "OnAppend", action |-> "Flush"]
    /\ wrt = [cursor |-> 0, buffer |-> <<>>]
    /\ wrote = <<>>
    /\ reader = RecordReader_open
    /\ returned = <<>>
    /\ stage = "writing"
    /\ damaged = -1

\* create_queue("q1") on the new log
CreateInLog ==
    /\ stage = "writing" /\ damaged = -1 /\ ~contains_queue(in_mem_queues, "q1")
    /\ WriteToLog(RecordPositionRec("q1", 0))
    /\ in_mem_queues' = ack_position(in_mem_queues, "q1", 0)
    /\ UNCHANGED <<debug_assertions, status, writer, next_persist, last, nops, all_ok,
                   appended, mem, history, clock, codec, reader, returned, stage, damaged>>

\* append_record("q1", None, payload), the payload one byte that tells the
\* position
AppendToLog ==
    /\ stage = "writing" /\ contains_queue(in_mem_queues, "q1")
    /\ damaged = -1 \/ nops >= 1
    /\ Len(wrote) <= MaxRecords
    /\ \E position \in {MemQueue_next_position(in_mem_queues["q1"])} :
          /\ WriteToLog(AppendRecordsRec("q1", position,
                                         MultiRecord_serialize(<<<<position + 1>>>>,
                                                               position)))
          /\ in_mem_queues' =
                [in_mem_queues EXCEPT
                    !["q1"] = MemQueue_append_record(@, 0, position,
                                                     <<position + 1>>).queue]
    /\ UNCHANGED <<debug_assertions, status, writer, next_persist, last, nops, all_ok,
                   appended, mem, history, clock, codec, reader, returned, stage, damaged>>

\* the bytes of block blk from offset at on are overwritten: one byte, or the
\* whole block, before the log is opened
Damage(blk, at, whole) ==
    /\ stage = "writing" /\ damaged = -1 /\ nops = 0
    /\ whole => at = 0
    /\ (blk + 1) * BlockBytes <= Len(wrt.buffer)
    /\ damaged' = blk
    /\ wrt' = [wrt EXCEPT !.buffer =
                  [i \in DOMAIN wrt.buffer |->
                      IF /\ i > blk * BlockBytes + at
                         /\ i <= (IF whole THEN (blk + 1) * BlockBytes
                                  ELSE blk * BlockBytes + at + 1)
                      THEN 255
                      ELSE wrt.buffer[i]]]
    /\ UNCHANGED <<debug_assertions, status, in_mem_queues, writer, next_persist, last,
                   nops, all_ok, appended, mem, history, clock, codec, wrote, reader, returned, stage>>

\* MultiRecordLog::open: RollingReader::open reads the first block, and the
\* queues are MemQueues::default()
OpenLog ==
    /\ stage = "writing" /\ Len(wrt.buffer) >= BlockBytes /\ nops < MaxOpens
    /\ stage' = "reading"
    /\ reader' = RecordReader_open
    /\ in_mem_queues' = MemQueues_default
    /\ history' = <<>>
    /\ UNCHANGED <<debug_assertions, status, writer, next_persist, last, nops, all_ok,
                   appended, mem, clock, codec, wrt, wrote, returned, damaged>>

\* read_record: go_next, then record(), which is Corruption when deserialize
\* returns None: [res, rd, record]
read_record(r) ==
    IF r.res = "true" /\ ~MultiPlexedRecord_deserialize(r.rd.record_buffer).some
    THEN [res |-> "Corruption", rd |-> r.rd, record |-> None]
    ELSE [res |-> r.res, rd |-> r.rd,
          record |-> IF r.res = "true"
                     THEN MultiPlexedRecord_deserialize(r.rd.record_buffer)
                     ELSE None]

\* one turn of the loop of open_with_prefs on what read_record returned:
\* [stage, qs]
LoopTurn(r, qs, debug) ==
    CASE r.res = "true" ->
            LET o == ReplayRecord(qs, Demultiplexed(r.record.v,
                                                    MultiRecord_items(r.record.v.records, 0)),
                                  0, debug)
            IN  [stage |-> IF o.res = "Ok" THEN "reading" ELSE o.res, qs |-> o.qs]
      [] r.res = "false" -> [stage |-> "opened", qs |-> qs]
      [] r.res = "Hang" -> [stage |-> "Hang", qs |-> qs]
      [] OTHER -> [stage |-> "reading", qs |-> qs]

\* the turns the loop takes at most when it reads no block twice: one for each
\* frame and block, and one for the failed read
TurnsLimit == (Len(wrt.buffer) \div BlockBytes) * (BlockBytes \div HEADER_LEN + 1) + 2

\* one turn of the loop; fails tells whether the read of a block fails in it,
\* which it does once at most, in a log that was not overwritten.  The model
\* follows the loop of each open for TurnsLimit turns.
ReplayStep(fails) ==
    /\ stage = "reading" /\ Len(returned) < (nops + 1) * TurnsLimit
    /\ fails => damaged = -1 /\ \A i \in DOMAIN returned : returned[i] # "IoError"
    /\ \E g \in {RecordReader_go_next(wrt.buffer, reader, fails, {})} :
          /\ history' = IF g.res = "Hang"
                        THEN history
                        ELSE history \o frames_read(wrt.buffer, reader, g, fails)
          /\ \E r \in {read_record(g)} :
                /\ reader' = r.rd
                /\ returned' = Append(returned, r.res)
                /\ \E t \in {LoopTurn(r, in_mem_queues, debug_assertions)} :
                      stage' = t.stage /\ in_mem_queues' = t.qs
    /\ UNCHANGED <<debug_assertions, status, writer, next_persist, last, nops, all_ok,
                   appended, mem, clock, codec, wrt, wrote, damaged>>

\* the end of open_with_prefs: record_reader.into_writer().  RollingReader::
\* into_writer seeks to the start of the block the reader is on and
\* FrameReader::into_writer moves forward by the cursor in it.  last notes the
\* records of the queue as the replay left them.
IntoWriter ==
    /\ stage = "opened"
    /\ wrt' = [wrt EXCEPT !.cursor = reader.block_id * BlockBytes + reader.cursor]
    /\ stage' = "writing"
    /\ nops' = nops + 1
    /\ last' = IF contains_queue(in_mem_queues, "q1")
               THEN Call("reopen", "q1", Some(in_mem_queues["q1"].start_position),
                         Len(in_mem_queues["q1"].record_metas), "Ok", Len(wrote))
               ELSE Call("reopen", "", None, 0, "Ok", Len(wrote))
    /\ UNCHANGED <<debug_assertions, status, in_mem_queues, writer, next_persist, all_ok,
                   appended, mem, history, clock, codec, wrote, reader, returned, damaged>>

NextOpen ==
    \/ CreateInLog
    \/ AppendToLog
    \/ \E blk \in 0..(3 * MaxRecords), at \in 0..(BlockBytes - 1), whole \in BOOLEAN :
          Damage(blk, at, whole)
    \/ OpenLog
    \/ \E fails \in BOOLEAN : ReplayStep(fails)
    \/ IntoWriter

SpecOpen == InitOpen /\ [][NextOpen]_vars

\* the positions range("q1", ..) returns, when the queue exists and range
\* does not panic
RecoveredPositions ==
    IF contains_queue(in_mem_queues, "q1")
       /\ range_all(in_mem_queues, "q1", debug_assertions).ok
    THEN {range_all(in_mem_queues, "q1", debug_assertions).val[i].position :
             i \in DOMAIN range_all(in_mem_queues, "q1", debug_assertions).val}
    ELSE {}

\* C22: opening a log one block of which was overwritten succeeds; every
\* record range returns has the payload appended at its position, and the
\* records whose frames are all in blocks after the overwritten one are
\* recovered
C22_OpensCorruptedLog ==
    damaged # -1 =>
        /\ stage \notin {"Corruption", "Panic", "Hang"}
        /\ stage = "reading" => Len(returned) < (nops + 1) * TurnsLimit
        /\ (stage = "opened" /\ contains_queue(in_mem_queues, "q1")) =>
              /\ range_all(in_mem_queues, "q1", debug_assertions).ok
              /\ \A i \in DOMAIN range_all(in_mem_queues, "q1", debug_assertions).val :
                    range_all(in_mem_queues, "q1", debug_assertions).val[i].payload
                       = <<range_all(in_mem_queues, "q1", debug_assertions).val[i].position + 1>>
        /\ stage = "opened" =>
              \A i \in DOMAIN wrote :
                  (wrote[i].rec.type = "AppendRecords" /\ wrote[i].from > damaged)
                      => wrote[i].rec.position \in RecoveredPositions

\* the number of records appended to the log after it had been opened n times
AppendedAfter(n) ==
    Cardinality({i \in DOMAIN wrote :
                    wrote[i].rec.type = "AppendRecords" /\ wrote[i].opens = n})

\* C24: the writer resumes after the last frame the replay read, so that the
\* records appended after a reopen overwrite none of the replayed ones: a
\* further reopen ends and the queue then holds the records the first replay
\* yielded followed by the ones appended since, each with its payload
C24_ReopenYieldsReplayedThenNew ==
    nops = 1 =>
        /\ stage \notin {"Corruption", "Panic", "Hang"}
        /\ stage = "reading" => Len(returned) < (nops + 1) * TurnsLimit
        /\ (stage = "opened" /\ last.queue = "q1") =>
              /\ contains_queue(in_mem_queues, "q1")
              /\ in_mem_queues["q1"].start_position = last.position.v
              /\ Len(in_mem_queues["q1"].record_metas) = last.n + AppendedAfter(1)
              /\ range_all(in_mem_queues, "q1", debug_assertions).ok
              /\ \A i \in DOMAIN range_all(in_mem_queues, "q1", debug_assertions).val :
                    range_all(in_mem_queues, "q1", debug_assertions).val[i]
                       = [position |-> last.position.v + i - 1,
                          payload |-> <<last.position.v + i>>]

\* C26: when the read of a block fails with an I/O error during open, open
\* returns that error: the loop neither goes on as after a corruption nor
\* reads again
C26_IoErrorEndsOpen ==
    (\E i \in DOMAIN returned : returned[i] = "IoError") => stage = "IoError"

\* ------------------------------------------------------------------------
\* Reopening, errors and the invariants of the queues (Spec)
\* ------------------------------------------------------------------------
\* the last file is completely full and no further file exists
LastFileIsFull ==
    /\ writer.offset >= RecordsPerFile
    /\ \A f \in writer.files : f <= writer.file_number

\* the number of records queue q holds in qs, -1 when it does not exist
RecordCount(qs, q) ==
    IF contains_queue(qs, q) THEN Len(qs[q].record_metas) ELSE -1

\* C23: reopening a log whose last file is completely full, all of its records
\* in the file, succeeds and every queue holds as many records as before
C23_ReopensFullLastFile ==
    [][(IsReopen /\ last'.n = 0 /\ LastFileIsFull)
           => /\ last'.res = "Ok"
              /\ \A q \in Queues :
                    RecordCount(in_mem_queues', q) = RecordCount(in_mem_queues, q)]_vars

\* the errors returned before anything is written
Rejections == {"AlreadyExists", "MissingQueue", "Past"}

\* C25: a call that fails with AlreadyExists, MissingQueue or Past writes no
\* record to the log and leaves the queues, their records and next_position,
\* as they were
C25_RejectedCallChangesNothing ==
    [][(nops' = nops + 1 /\ status = "open" /\ last'.res \in Rejections)
           => writer' = writer /\ in_mem_queues' = in_mem_queues]_vars

\* each of the three errors has been returned by a call on a log that holds
\* records: create_queue on an existing queue, a call on an unknown queue, an
\* append in the past
C25_Witness ==
    /\ nops >= 1 /\ writer.log # <<>>
    /\ \/ last.op = "create_queue" /\ last.res = "AlreadyExists"
       \/ last.op \in {"append_records", "truncate", "delete_queue"}
             /\ last.res = "MissingQueue"
       \/ last.op = "append_records" /\ last.res = "Past"

\* the positions of the records MemQueue::range(..) goes through: range maps
\* the index idx of a meta to start_position + idx
PositionsOf(queue) ==
    [idx \in 1..Len(queue.record_metas) |-> queue.start_position + (idx - 1)]

\* MemQueue::last_position, called by MemQueues::last_position: the position
\* before next_position, None when next_position is 0.  test_last_position
\* expects None of a new queue, Some(0) once a record is appended at 0 and
\* Some(0) still once truncate(0) has removed that record.
MemQueue_last_position(queue) ==
    IF MemQueue_next_position(queue) = 0
    THEN None
    ELSE Some(MemQueue_next_position(queue) - 1)

\* MultiRecordLog::last_position over MemQueues::last_position
last_position(qs, queue) ==
    IF contains_queue(qs, queue)
    THEN Ok(MemQueue_last_position(qs[queue]))
    ELSE [ok |-> FALSE, val |-> "MissingQueue"]

C30_QueueInvariants ==
    \A q \in Queues :
        contains_queue(in_mem_queues, q) =>
            /\ \A i \in 1..Len(in_mem_queues[q].record_metas) - 1 :
                  /\ PositionsOf(in_mem_queues[q])[i] < PositionsOf(in_mem_queues[q])[i + 1]
                  /\ in_mem_queues[q].record_metas[i].start_offset
                        <= in_mem_queues[q].record_metas[i + 1].start_offset
            /\ in_mem_queues[q].record_metas # <<>> =>
                  /\ in_mem_queues[q].start_position <= PositionsOf(in_mem_queues[q])[1]
                  /\ PositionsOf(in_mem_queues[q])[Len(in_mem_queues[q].record_metas)]
                        < MemQueue_next_position(in_mem_queues[q])
            /\ in_mem_queues[q].record_metas = <<>> =>
                  in_mem_queues[q].start_position = MemQueue_next_position(in_mem_queues[q])

\* a queue whose first record is not at position 0 holds two records, the
\* second at a greater byte offset than the first
C30_Witness ==
    \E q \in Queues :
        /\ contains_queue(in_mem_queues, q)
        /\ in_mem_queues[q].start_position >= 1
        /\ Len(in_mem_queues[q].record_metas) >= 2
        /\ in_mem_queues[q].record_metas[1].start_offset
              < in_mem_queues[q].record_metas[2].start_offset

\* ------------------------------------------------------------------------
\* SpecKeepFilenum: the calls of MemQueues on one queue, as MultiRecordLog and
\* test_mem_queues_keep_filenum make them: the FileNumber given to
\* append_record is that of the file being written or read, which never goes
\* back.  history is, for each record the queue holds, the file it was
\* appended with.
\* ------------------------------------------------------------------------
\* the files are 0..MaxFile
MaxFile == 3
\* the number of calls
MaxCalls == 6

InitKeepFilenum ==
    /\ InitLog /\ NoClock /\ NoCodec /\ NoRecordLog
    /\ next_persist = [kind |-> "OnAppend", action |-> "Flush"]
    /\ mem = [kind |-> "none"]
    /\ history = <<>>

\* what the calls below leave alone
KeepOthers ==
    UNCHANGED <<debug_assertions, status, next_persist, last, all_ok, appended, clock,
                codec, recordlog, mem>>

\* MemQueues::create_queue("q1")
KeepCreateQueue ==
    /\ nops < MaxCalls /\ ~contains_queue(in_mem_queues, "q1")
    /\ in_mem_queues' = [in_mem_queues EXCEPT !["q1"] = MemQueue_new]
    /\ nops' = nops + 1
    /\ UNCHANGED <<writer, history>> /\ KeepOthers

\* MemQueues::append_record("q1", file, position, payload), the file the next
\* one when the writer has rolled over
KeepAppendRecord(rolls, position) ==
    /\ nops < MaxCalls /\ contains_queue(in_mem_queues, "q1")
    /\ rolls => writer.file_number < MaxFile
    /\ writer' = [writer EXCEPT !.file_number = IF rolls THEN @ + 1 ELSE @]
    /\ \E r \in {MemQueue_append_record(in_mem_queues["q1"], writer'.file_number,
                                        position, <<>>)} :
          /\ in_mem_queues' = [in_mem_queues EXCEPT !["q1"] = r.queue]
          /\ history' = IF r.res = "Ok"
                        THEN Append(history, writer'.file_number)
                        ELSE history
    /\ nops' = nops + 1
    /\ KeepOthers

\* MemQueues::truncate("q1", position)
KeepTruncate(position) ==
    /\ nops < MaxCalls /\ contains_queue(in_mem_queues, "q1")
    /\ \E t \in {MemQueue_truncate(in_mem_queues["q1"], position, debug_assertions)} :
          /\ t.ok
          /\ in_mem_queues' = [in_mem_queues EXCEPT !["q1"] = t.val]
          /\ history' = SubSeq(history,
                               Len(history) - Len(t.val.record_metas) + 1, Len(history))
    /\ nops' = nops + 1
    /\ UNCHANGED writer /\ KeepOthers

\* MemQueues::ack_position("q1", next_position)
KeepAckPosition(next_position) ==
    /\ nops < MaxCalls
    /\ in_mem_queues' = ack_position(in_mem_queues, "q1", next_position)
    /\ history' = IF MemQueue_is_empty(in_mem_queues'["q1"]) THEN <<>> ELSE history
    /\ nops' = nops + 1
    /\ UNCHANGED writer /\ KeepOthers

NextKeepFilenum ==
    \/ KeepCreateQueue
    \/ \E rolls \in BOOLEAN, position \in 0..MaxCalls : KeepAppendRecord(rolls, position)
    \/ \E position \in 0..MaxCalls : KeepTruncate(position)
    \/ \E next_position \in 0..MaxCalls : KeepAckPosition(next_position)

SpecKeepFilenum == InitKeepFilenum /\ [][NextKeepFilenum]_vars

\* the last of the records the queue holds that was appended with file
LastAppendedWith(file) ==
    CHOOSE i \in DOMAIN history :
        history[i] = file /\ \A j \in DOMAIN history : history[j] = file => j <= i

\* C31: for each file F the queue holds records appended with, exactly one
\* entry holds a reference to F, the last one appended with F; F is referenced
\* (can_be_deleted is false) as long as the queue holds a record appended with
\* F, and no longer once the last of them is truncated or the queue is
\* re-created by ack_position
C31_OneReferencePerFile ==
    contains_queue(in_mem_queues, "q1") =>
        /\ Len(history) = Len(in_mem_queues["q1"].record_metas)
        /\ \A file \in 0..MaxFile :
              IF \E i \in DOMAIN history : history[i] = file
              THEN /\ {i \in DOMAIN history :
                          in_mem_queues["q1"].record_metas[i].file_number = Some(file)}
                         = {LastAppendedWith(file)}
                   /\ ~can_be_deleted(file, in_mem_queues, {})
              ELSE can_be_deleted(file, in_mem_queues, {})

\* records appended with file 0 and file 1 were truncated up to the last one of
\* file 0, which still holds the reference, and file 1 is referenced as well
C31_Witness ==
    /\ contains_queue(in_mem_queues, "q1")
    /\ in_mem_queues["q1"].start_position >= 1
    /\ Len(history) >= 2 /\ history[1] = 0 /\ history[2] = 1
    /\ in_mem_queues["q1"].record_metas[1].file_number = Some(0)
    /\ in_mem_queues["q1"].record_metas[2].file_number = Some(1)

\* C32: every frame written by RecordWriter::write_record lies inside one
\* block; when fewer than HEADER_LEN bytes remain in the block they are filled
\* with zeros and the frame starts at the next block; the assertion of
\* BlockWrite::write, buf.len() <= num_bytes_remaining_in_block(), holds at
\* every write
C32_FramesStayInOneBlock ==
        /\ \A k \in DOMAIN history :
              /\ history[k].len <= history[k].remaining
              /\ history[k].remaining = BlockBytes - (history[k].at % BlockBytes)
              /\ IF history[k].frame
                 THEN /\ history[k].len >= HEADER_LEN
                      /\ history[k].at \div BlockBytes
                            = (history[k].at + history[k].len - 1) \div BlockBytes
                      /\ FrameType_from_u8(wrt.buffer[history[k].at + HEADER_LEN]).some
                      /\ u16_from_le_bytes(SubSeq(wrt.buffer, history[k].at + 5,
                                                  history[k].at + 6))
                            = history[k].len - HEADER_LEN
                 ELSE /\ history[k].remaining < HEADER_LEN
                      /\ \A i \in 1..history[k].len : wrt.buffer[history[k].at + i] = 0
                      /\ k < Len(history)
                      /\ history[k + 1].frame
                      /\ history[k + 1].at % BlockBytes = 0
              /\ history[k].at + history[k].len
                    = IF k < Len(history) THEN history[k + 1].at ELSE wrt.cursor
              /\ history[k].frame /\ history[k].remaining - history[k].len < HEADER_LEN
                 /\ k < Len(history)
                    => \/ history[k].remaining = history[k].len
                       \/ ~history[k + 1].frame
        /\ history # <<>> => history[1].at = 0

\* the end of a block was filled with zeros before a frame, and a record was
\* written in frames of two blocks
C32_Witness ==
    /\ stage = "writing"
    /\ \E k \in DOMAIN history : ~history[k].frame
    /\ \E k \in DOMAIN history :
          /\ history[k].frame /\ history[k].len = history[k].remaining
          /\ k < Len(history) /\ history[k + 1].frame
          /\ wrt.buffer[history[k + 1].at + HEADER_LEN] \in {3, 4}

\* the frames history[j..n] are one record: a first frame (Full or First)
\* at j, no first frame after it, a last frame (Full or Last) at n, and every
\* read between them returned a frame
IsRecordInFrames(j, n) ==
    /\ \A k \in j..n : history[k].res = "Frame"
    /\ is_first_frame_of_record(history[j].frame_type)
    /\ \A k \in (j + 1)..n : ~is_first_frame_of_record(history[k].frame_type)
    /\ is_last_frame_of_record(history[n].frame_type)

RECURSIVE PayloadsOf(_, _)
PayloadsOf(j, n) ==
    IF j > n THEN <<>> ELSE history[j].payload \o PayloadsOf(j + 1, n)

\* C33: the record reader yields a record exactly at a last frame that follows
\* a first frame (Full or First) with only its frames between them and no
\* corruption; the record is the payloads of these frames; after a corruption
\* the record in flight is dropped, and Middle and Last frames are ignored
\* when no record is in flight
C33_RecordIsFirstToLastFrames ==
    stage # "writing" =>
        \A n \in DOMAIN history :
            /\ history[n].went = "true" <=> \E j \in 1..n : IsRecordInFrames(j, n)
            /\ \A j \in 1..n :
                  IsRecordInFrames(j, n) => history[n].record = PayloadsOf(j, n)
            /\ history[n].went \in {"Corruption", "IoError"} <=> history[n].res = history[n].went
            /\ history[n].went = "false" <=> history[n].res = "NotAvailable"

\* a record of several frames was yielded, after a Last frame was ignored that
\* came after a corruption
C33_Witness ==
    /\ stage # "writing"
    /\ \E c, i, j, n \in DOMAIN history :
          /\ c < i /\ i < j /\ j < n
          /\ history[c].res = "Corruption"
          /\ history[i].res = "Frame" /\ history[i].frame_type = "Last"
          /\ \A k \in c..i : history[k].res = "Frame" => history[k].frame_type # "First"
          /\ IsRecordInFrames(j, n)
          /\ history[n].went = "true"

\* ------------------------------------------------------------------------
\* SpecFrames: frames written with FrameWriter over a VecBlockWriter, one byte
\* of the buffer overwritten, and the frames read with FrameReader over an
\* ArrayReader, as in frame/tests.rs.  returned holds what the calls of
\* read_frame returned, each with the block and the offset its header was read
\* at and the cursor after it.
\* ------------------------------------------------------------------------
\* the number of frames written
MaxFrames == 3
\* the number of calls of read_frame
MaxReads == 6
\* the lengths of the payloads: a block holds two frames of these
FrameLens == {0, BlockBytes - 2 * HEADER_LEN}

InitFrames ==
    /\ InitLog /\ NoClock /\ NoCodec /\ NoMem
    /\ wrt = [cursor |-> 0, buffer |-> <<>>]
    /\ wrote = <<>>
    /\ reader = RecordReader_open
    /\ returned = <<>>
    /\ stage = "writing"
    /\ damaged = -1

\* what the actions on frames leave alone
FramesOthers ==
    UNCHANGED <<debug_assertions, status, in_mem_queues, writer, next_persist, last,
                nops, all_ok, appended, mem, history, clock, codec>>

\* frame_writer.write_frame(frame_type, payload), the payload len times the
\* number of the frame
WriteFrame(t, len) ==
    /\ stage = "writing" /\ damaged = -1 /\ Len(wrote) < MaxFrames
    /\ \E frame_payload \in {[i \in 1..len |-> Len(wrote) + 1]} :
          /\ wrt' = FrameWriter_write_frame(wrt, t, frame_payload)
          /\ wrote' = Append(wrote, [frame_type |-> t, payload |-> frame_payload])
    /\ UNCHANGED <<reader, returned, stage, damaged>> /\ FramesOthers

\* buf[i] = b, b another byte than the one written
DamageFrame(i, b) ==
    /\ stage = "writing" /\ damaged = -1
    /\ i < wrt.cursor /\ wrt.buffer[i + 1] # b
    /\ wrt' = [wrt EXCEPT !.buffer[i + 1] = b]
    /\ damaged' = i
    /\ UNCHANGED <<wrote, reader, returned, stage>> /\ FramesOthers

\* FrameReader::open(ArrayReader::from(&buf[..]))
OpenFrames ==
    /\ stage = "writing" /\ Len(wrt.buffer) >= BlockBytes
    /\ stage' = "reading"
    /\ reader' = RecordReader_open
    /\ UNCHANGED <<wrt, wrote, returned, damaged>> /\ FramesOthers

\* frame_reader.read_frame()
ReadFrame ==
    /\ stage = "reading" /\ Len(returned) < MaxReads
    /\ \E f \in {FrameReader_read_frame(wrt.buffer, reader, FALSE)},
          g \in {go_to_next_block_if_necessary(wrt.buffer, reader, FALSE)} :
          /\ reader' = f.rd
          /\ returned' = Append(returned,
                                [res |-> f.res, frame_type |-> f.frame_type,
                                 payload |-> f.payload, block |-> g.rd.block_id,
                                 at |-> g.rd.cursor, after |-> f.rd.cursor])
    /\ UNCHANGED <<wrt, wrote, stage, damaged>> /\ FramesOthers

NextFrames ==
    \/ \E t \in {"First", "Middle"}, len \in FrameLens : WriteFrame(t, len)
    \/ \E i \in 0..(MaxFrames * BlockBytes), b \in {0, 255} : DamageFrame(i, b)
    \/ OpenFrames
    \/ ReadFrame

SpecFrames == InitFrames /\ [][NextFrames]_vars

\* the bytes of the header that read number n was made at
HeaderAt(n) ==
    SubSeq(wrt.buffer, returned[n].block * BlockBytes + returned[n].at + 1,
           returned[n].block * BlockBytes + returned[n].at + HEADER_LEN)

\* what is wrong with the frame that read number n was made at: "header"
\* (no frame type), "length" (past the end of the block), "crc", or "" when
\* nothing is, or when there is no frame
CorruptionAt(n) ==
    CASE HeaderAt(n) = Zeros(HEADER_LEN) -> ""
      [] ~Header_deserialize(HeaderAt(n)).some -> "header"
      [] returned[n].at + HEADER_LEN + Header_deserialize(HeaderAt(n)).v.len > BlockBytes ->
            "length"
      [] crc32(SubSeq(wrt.buffer,
                      returned[n].block * BlockBytes + returned[n].at + HEADER_LEN + 1,
                      returned[n].block * BlockBytes + returned[n].at + HEADER_LEN
                         + Header_deserialize(HeaderAt(n)).v.len))
            # Header_deserialize(HeaderAt(n)).v.checksum -> "crc"
      [] OTHER -> ""

\* C34 as stated: on any frame corruption (undecodable header, length past the
\* end of the block, or wrong CRC of the payload) the frame reader returns
\* Corruption and the next read is made at the start of the next block
C34_AnyCorruptionDropsBlock ==
    \A n \in DOMAIN returned :
        /\ returned[n].res = "Corruption" <=> CorruptionAt(n) # ""
        /\ returned[n].res = "Corruption" /\ n < Len(returned)
           /\ (returned[n].block + 2) * BlockBytes <= Len(wrt.buffer)
              => /\ returned[n + 1].block = returned[n].block + 1
                 /\ returned[n + 1].at = 0

\* C34 amended: the frame reader returns Corruption on an undecodable header, a
\* length past the end of the block, or a wrong CRC.  After the first two the
\* rest of the block is given up: the next read is made at the start of the
\* next block, when there is one.  After a wrong CRC the next read is made in
\* the same block right after the payload, when a header has room there
C34_HeaderCorruptionDropsBlock ==
    \A n \in DOMAIN returned :
        /\ returned[n].res = "Corruption" <=> CorruptionAt(n) # ""
        /\ CorruptionAt(n) \in {"header", "length"} /\ n < Len(returned)
           /\ (returned[n].block + 2) * BlockBytes <= Len(wrt.buffer)
              => /\ returned[n + 1].block = returned[n].block + 1
                 /\ returned[n + 1].at = 0
        /\ CorruptionAt(n) = "crc" /\ n < Len(returned)
              => /\ returned[n].after
                       = returned[n].at + HEADER_LEN + Header_deserialize(HeaderAt(n)).v.len
                 /\ BlockBytes - returned[n].after >= HEADER_LEN
                       => /\ returned[n + 1].block = returned[n].block
                          /\ returned[n + 1].at = returned[n].after

\* a frame was read in the same block after a frame with a wrong CRC
C34_Witness ==
    \E n \in DOMAIN returned :
        /\ n < Len(returned)
        /\ CorruptionAt(n) = "crc"
        /\ returned[n + 1].res = "Frame"
        /\ returned[n + 1].block = returned[n].block

\* ------------------------------------------------------------------------
\* SpecRolling: records written through a RollingWriter into files of
\* BlocksPerFile blocks, a middle file truncated to no byte as in
\* test_read_truncated, and the records read through a RollingReader.
\* damaged is the file truncated.
\* ------------------------------------------------------------------------
\* NUM_BLOCKS_PER_FILE
BlocksPerFile == 2

FileBytes == BlocksPerFile * BlockBytes

\* the lengths of the records: one byte, a block and one byte more, three
\* blocks
RollingLens == {1, BlockBytes - HEADER_LEN + 1, 3 * (BlockBytes - HEADER_LEN)}

\* the last file the writer has written in
LastFile == (wrt.cursor - 1) \div FileBytes

\* the blocks RollingReader::next_block goes through, one after the other:
\* those of the files in which a block can be read, the files written being of
\* FileBytes bytes and the truncated one of none
RollingReader_blocks(data, truncated) ==
    LET skipped == IF truncated \in 0..LastFile THEN FileBytes ELSE 0
        nth(k) == IF skipped > 0 /\ k > truncated * FileBytes THEN k + skipped ELSE k
    IN  [k \in 1..((LastFile + 1) * FileBytes - skipped) |->
            IF nth(k) <= Len(data) THEN data[nth(k)] ELSE 0]

\* OpenOptions::new().truncate(true).write(true).open(filepath) on a file
\* that is neither the first nor the last
TruncateFile(file) ==
    /\ stage = "writing" /\ damaged = -1
    /\ 0 < file /\ file < LastFile
    /\ damaged' = file
    /\ UNCHANGED <<debug_assertions, status, in_mem_queues, writer, next_persist, last,
                   nops, all_ok, appended, mem, history, clock, codec, wrt, wrote,
                   reader, returned, stage>>

\* reader.read_record() over the files
ReadRolling ==
    /\ stage = "reading" /\ Len(returned) <= 2 * MaxRecords
    /\ \E r \in {RecordReader_go_next(RollingReader_blocks(wrt.buffer, damaged), reader,
                                      FALSE, {})} :
          /\ reader' = r.rd
          /\ returned' = Append(returned, [res |-> r.res,
                                           record |-> IF r.res = "true"
                                                      THEN r.rd.record_buffer ELSE <<>>])
          /\ stage' = CASE r.res = "false" -> "done"
                        [] r.res = "Hang" -> "hang"
                        [] OTHER -> "reading"
    /\ UNCHANGED <<debug_assertions, status, in_mem_queues, writer, next_persist, last,
                   nops, all_ok, appended, mem, history, clock, codec, wrt, wrote, damaged>>

NextRolling ==
    \/ \E len \in RollingLens : WriteRecord(len)
    \/ \E file \in 1..MaxRecords : TruncateFile(file)
    \/ StartReading
    \/ ReadRolling

SpecRolling == InitRecordLog /\ [][NextRolling]_vars

\* C35: when a middle file cannot be read and the rolling reader skips it, no
\* record is yielded that is made of frames of two different records written
\* (the bytes of a record written are all the number of the record)
C35_NoRecordOfTwoRecords ==
    \A i \in DOMAIN returned :
        returned[i].res = "true" =>
            \A a, b \in DOMAIN returned[i].record :
                returned[i].record[a] = returned[i].record[b]

\* the reader went forward in the log: to a later block, or further in its block
ReaderWentForward ==
    \/ reader'.block_id > reader.block_id
    \/ reader'.block_id = reader.block_id /\ reader'.cursor > reader.cursor

\* C36: open terminates whatever the files hold: each turn of the loop of
\* open_with_prefs whose read did not fail either ends the loop or leaves the
\* reader further in the log than it was (a frame or a block was consumed),
\* after a Corruption as well, and when the last block of the last file is
\* corrupted or has no room left; and read_record itself returns
C36_OpenTerminates ==
    [][(stage = "reading" /\ returned' # returned /\ returned'[Len(returned')] # "IoError")
          => /\ stage' # "Hang"
             /\ stage' = "reading" => ReaderWentForward]_vars

\* ------------------------------------------------------------------------
\* mem/arena.rs: the Arena of pages.  An arena is [pages, free_slots,
\* free_page_ids, stats]: pages[id + 1] is the page of PageId(id), or NoPage.
\* ------------------------------------------------------------------------
\* PAGE_SIZE (7 in the tests, 1 << 20 otherwise)
PAGE_SIZE == 3
\* the least number of pages gc keeps allocated (10 in gc)
GcFloor == 1
\* the calls after which record_num_used_page looks at the time (64)
CallsPerClock == 2
\* the pages an arena of the model has at most
MaxPages == 4

NoPage == [some |-> FALSE, v |-> <<>>]

\* ArenaStats::default
ArenaStats_default ==
    [max_num_used_pages_former |-> 0, max_num_used_pages_current |-> 0, call_counter |-> 0]

\* Arena::default
Arena_default ==
    [pages |-> <<>>, free_slots |-> <<>>, free_page_ids |-> <<>>,
     stats |-> ArenaStats_default]

Arena_num_allocated_pages(arena) == Len(arena.pages) - Len(arena.free_slots)

Arena_num_used_pages(arena) ==
    Len(arena.pages) - Len(arena.free_slots) - Len(arena.free_page_ids)

\* the greater of two numbers (usize::max)
Max(a, b) == IF a >= b THEN a ELSE b

\* ArenaStats::record_num_used_page, the stats it leaves; late tells whether
\* Instant::now() is past next_window_start when it is looked at
record_num_used_page(stats, num_used_pages, late) ==
    LET counter == (stats.call_counter + 1) % CallsPerClock
        rolls == counter = 0 /\ late
    IN  [max_num_used_pages_former |->
            IF rolls THEN stats.max_num_used_pages_current
            ELSE stats.max_num_used_pages_former,
         max_num_used_pages_current |->
            Max(IF rolls THEN 0 ELSE stats.max_num_used_pages_current, num_used_pages),
         call_counter |-> counter]

\* the free pages of a sequence of ids popped one after the other: the last n
\* ids, the last one first
Popped(ids, n) == [k \in 1..n |-> ids[Len(ids) + 1 - k]]

\* the loop of Arena::gc, num_pages_to_free pages taken off free_page_ids
Arena_free_pages(arena, num_pages_to_free) ==
    [arena EXCEPT
        !.pages = [i \in DOMAIN @ |->
                      IF \E k \in 1..num_pages_to_free :
                            Popped(arena.free_page_ids, num_pages_to_free)[k] = i - 1
                      THEN NoPage ELSE @[i]],
        !.free_page_ids = SubSeq(@, 1, Len(@) - num_pages_to_free),
        !.free_slots = @ \o Popped(arena.free_page_ids, num_pages_to_free)]

\* Arena::gc: [ok, arena], ok FALSE when the assertion fails
Arena_gc(arena, late) ==
    LET stats == record_num_used_page(arena.stats, Arena_num_used_pages(arena), late)
        target_num_pages ==
            Max((Max(stats.max_num_used_pages_former, stats.max_num_used_pages_current)
                    * 105) \div 100,
                GcFloor)
        num_pages_to_free == Max(Arena_num_allocated_pages(arena) - target_num_pages, 0)
    IN  IF num_pages_to_free <= Len(arena.free_page_ids)
        THEN [ok |-> TRUE,
              arena |-> Arena_free_pages([arena EXCEPT !.stats = stats], num_pages_to_free)]
        ELSE [ok |-> FALSE, arena |-> [arena EXCEPT !.stats = stats]]

\* vec![0u8; PAGE_SIZE]
NewPage == [some |-> TRUE, v |-> [i \in 1..PAGE_SIZE |-> 0]]

\* what acquire_page and release_page return after gc: [ok, arena, page_id]
AfterGc(asserted, arena, page_id, late) ==
    IF asserted
    THEN [ok |-> Arena_gc(arena, late).ok, arena |-> Arena_gc(arena, late).arena,
          page_id |-> page_id]
    ELSE [ok |-> FALSE, arena |-> arena, page_id |-> page_id]

\* acquire_page with a page allocated when there are free ones
Arena_acquire_page_allocating(arena, late) ==
    AfterGc(TRUE, [arena EXCEPT !.pages = Append(@, NewPage)], Len(arena.pages), late)

\* Arena::acquire_page: [ok, arena, page_id], ok FALSE when an assertion fails
Arena_acquire_page(arena, late) ==
    IF arena.free_page_ids # <<>>
    THEN LET page_id == arena.free_page_ids[Len(arena.free_page_ids)]
         IN  AfterGc(page_id + 1 \in DOMAIN arena.pages /\ arena.pages[page_id + 1].some,
                     [arena EXCEPT !.free_page_ids = SubSeq(@, 1, Len(@) - 1)],
                     page_id, late)
    ELSE IF arena.free_slots # <<>>
    THEN LET free_slot == arena.free_slots[Len(arena.free_slots)]
         IN  AfterGc(free_slot + 1 \in DOMAIN arena.pages /\ ~arena.pages[free_slot + 1].some,
                     [arena EXCEPT !.free_slots = SubSeq(@, 1, Len(@) - 1),
                                   !.pages[free_slot + 1] = NewPage],
                     free_slot, late)
    ELSE AfterGc(TRUE, [arena EXCEPT !.pages = Append(@, NewPage)], Len(arena.pages), late)

\* Arena::release_page: [ok, arena, page_id]
Arena_release_page(arena, page_id, late) ==
    AfterGc(page_id + 1 \in DOMAIN arena.pages /\ arena.pages[page_id + 1].some,
            [arena EXCEPT !.free_page_ids = Append(@, page_id)], page_id, late)

\* ------------------------------------------------------------------------
\* SpecArena: an Arena and the pages handed out by acquire_page that were not
\* given back (history, a set of page ids), as its one caller RollingBuffer
\* uses it: a page is released once, by the one who acquired it.
\* mem is [kind, arena, ok, op, page_id]: ok is FALSE once an assertion has
\* failed, op and page_id are the last call and the page id of it.
\* ------------------------------------------------------------------------
InitArena ==
    /\ InitLog /\ NoClock /\ NoCodec /\ NoRecordLog
    /\ next_persist = [kind |-> "OnAppend", action |-> "Flush"]
    /\ mem = [kind |-> "arena", arena |-> Arena_default, ok |-> TRUE, op |-> "default",
              page_id |-> 0]
    /\ history = {}

\* what the calls on the pages in memory leave alone
MemOthers ==
    UNCHANGED <<debug_assertions, status, in_mem_queues, writer, next_persist, last,
                nops, all_ok, appended, clock, codec, recordlog>>

\* arena.acquire_page()
AcquirePage(late) ==
    /\ mem.kind = "arena" /\ mem.ok
    /\ \/ Len(mem.arena.pages) < MaxPages
       \/ mem.arena.free_page_ids # <<>>
       \/ mem.arena.free_slots # <<>>
    /\ \E r \in {Arena_acquire_page(mem.arena, late)} :
          /\ mem' = [kind |-> "arena", arena |-> r.arena, ok |-> r.ok,
                     op |-> "acquire_page", page_id |-> r.page_id]
          /\ history' = history \cup {r.page_id}
    /\ MemOthers

\* arena.release_page(page_id), of a page acquired and not released
ReleasePage(page_id, late) ==
    /\ mem.kind = "arena" /\ mem.ok
    /\ page_id \in history
    /\ \E r \in {Arena_release_page(mem.arena, page_id, late)} :
          mem' = [kind |-> "arena", arena |-> r.arena, ok |-> r.ok,
                  op |-> "release_page", page_id |-> page_id]
    /\ history' = history \ {page_id}
    /\ MemOthers

\* arena.gc()
Gc(late) ==
    /\ mem.kind = "arena" /\ mem.ok
    /\ \E r \in {Arena_gc(mem.arena, late)} :
          mem' = [kind |-> "arena", arena |-> r.arena, ok |-> r.ok, op |-> "gc",
                  page_id |-> 0]
    /\ UNCHANGED history
    /\ MemOthers

NextArena ==
    \/ \E late \in BOOLEAN : AcquirePage(late)
    \/ \E page_id \in 0..(MaxPages - 1), late \in BOOLEAN : ReleasePage(page_id, late)
    \/ \E late \in BOOLEAN : Gc(late)

SpecArena == InitArena /\ [][NextArena]_vars

\* the number of times x is in seq
Count(seq, x) == Cardinality({k \in DOMAIN seq : seq[k] = x})

\* every slot of the arena is in one of the three states, and in one only: in
\* use (held by the caller, its page allocated), free (once in free_page_ids,
\* its page allocated), not allocated (once in free_slots, no page)
SlotsInOneState(arena, held) ==
    /\ \A id \in 0..(Len(arena.pages) - 1) :
          /\ (IF id \in held THEN 1 ELSE 0) + Count(arena.free_page_ids, id)
                + Count(arena.free_slots, id) = 1
          /\ arena.pages[id + 1].some <=> Count(arena.free_slots, id) = 0
    /\ \A id \in held : id < Len(arena.pages)
    /\ \A k \in DOMAIN arena.free_page_ids : arena.free_page_ids[k] < Len(arena.pages)
    /\ \A k \in DOMAIN arena.free_slots : arena.free_slots[k] < Len(arena.pages)

\* C37: every page slot of the arena is in exactly one of three states (in
\* use, allocated and free in free_page_ids, not allocated in free_slots);
\* acquire_page takes a free allocated page when there is one, before it
\* allocates; it never returns the id of a page in use; and the assertions of
\* acquire_page, release_page and gc never fail
C37_ArenaSlots ==
    [][mem'.kind = "arena" =>
          /\ mem'.ok
          /\ SlotsInOneState(mem'.arena, history')
          /\ mem'.op = "acquire_page" =>
                /\ mem'.page_id \notin history
                /\ mem'.page_id \in history'
                /\ mem'.arena.pages[mem'.page_id + 1].some
                /\ IF mem.arena.free_page_ids # <<>>
                   THEN /\ mem'.page_id
                              = mem.arena.free_page_ids[Len(mem.arena.free_page_ids)]
                        /\ Len(mem'.arena.pages) = Len(mem.arena.pages)
                        /\ Arena_num_allocated_pages(mem'.arena)
                              <= Arena_num_allocated_pages(mem.arena)
                   ELSE \/ mem'.page_id = Len(mem.arena.pages)
                        \/ Count(mem.arena.free_slots, mem'.page_id) = 1]_vars

\* acquire_page has returned a page that was free, while a page is in use,
\* another one is free and another one is not allocated
C37_Witness ==
    /\ mem.kind = "arena" /\ mem.op = "acquire_page"
    /\ Len(mem.arena.pages) = MaxPages
    /\ Cardinality(history) >= 2
    /\ mem.arena.free_page_ids # <<>>
    /\ mem.arena.free_slots # <<>>

\* ------------------------------------------------------------------------
\* mem/rolling_buffer.rs: the RollingBuffer over the pages of an Arena,
\* [page_ids, range], range being [start, end], and the PagesBuf it hands
\* out, [page_ids, start_offset, remaining_len].  The operators return
\* [ok, rb, arena], ok FALSE when the call panics.  late is what the arena
\* finds when it looks at the clock during the call.
\* ------------------------------------------------------------------------
num_pages_required(range) ==
    IF range.start >= range.end
    THEN 0
    ELSE (Max(range.end - 1, 0) \div PAGE_SIZE) - (range.start \div PAGE_SIZE) + 1

\* RollingBuffer::new
RollingBuffer_new_pages == [page_ids |-> <<>>, range |-> [start |-> 0, end |-> 0]]

\* arena.release_page for each of the pages drained, in their order
RECURSIVE release_pages(_, _, _)
release_pages(arena, page_ids, late) ==
    IF page_ids = <<>>
    THEN [ok |-> TRUE, arena |-> arena]
    ELSE LET r == Arena_release_page(arena, page_ids[1], late)
         IN  IF r.ok THEN release_pages(r.arena, Tail(page_ids), late)
             ELSE [ok |-> FALSE, arena |-> r.arena]

\* truncate_up_to_excluded with the pages kept
RollingBuffer_truncate_keeping_pages(rb, new_start, arena, late) ==
    [ok |-> new_start <= rb.range.end,
     rb |-> [rb EXCEPT !.range.start = new_start],
     arena |-> arena]

\* RollingBuffer::truncate_up_to_excluded
RollingBuffer_truncate_up_to_excluded(rb, new_start, arena, late) ==
    LET num_pages == num_pages_required([start |-> new_start, end |-> rb.range.end])
        released == release_pages(arena,
                                  SubSeq(rb.page_ids, 1, Len(rb.page_ids) - num_pages), late)
    IN  IF new_start <= rb.range.end /\ num_pages <= Len(rb.page_ids)
        THEN [ok |-> released.ok,
              rb |-> [page_ids |-> SubSeq(rb.page_ids, Len(rb.page_ids) - num_pages + 1,
                                          Len(rb.page_ids)),
                      range |-> [start |-> new_start, end |-> rb.range.end]],
              arena |-> released.arena]
        ELSE [ok |-> FALSE, rb |-> rb, arena |-> arena]

\* RollingBuffer::clear
RollingBuffer_clear_pages(rb, arena, late) ==
    RollingBuffer_truncate_up_to_excluded(rb, rb.range.end, arena, late)

\* RollingBuffer::get_page_with_room: [ok, rb, arena], the page with room the
\* last one of rb.page_ids
get_page_with_room(rb, arena, late) ==
    IF rb.range.end % PAGE_SIZE = 0 \/ rb.page_ids = <<>>
    THEN LET a == Arena_acquire_page(arena, late)
         IN  [ok |-> a.ok, rb |-> [rb EXCEPT !.page_ids = Append(@, a.page_id)],
              arena |-> a.arena]
    ELSE [ok |-> arena.pages[rb.page_ids[Len(rb.page_ids)] + 1].some,
          rb |-> rb, arena |-> arena]

\* page[..len].copy_from_slice(head), page the page of page_id from
\* start_offset on
CopyToPage(arena, page_id, start_offset, head) ==
    [arena EXCEPT !.pages[page_id + 1].v =
        [i \in 1..PAGE_SIZE |->
            IF i > start_offset /\ i <= start_offset + Len(head)
            THEN head[i - start_offset] ELSE @[i]]]

\* RollingBuffer::extend_from_slice
RECURSIVE RollingBuffer_extend_from_slice(_, _, _, _)
RollingBuffer_extend_from_slice(rb, slice, arena, late) ==
    IF slice = <<>>
    THEN [ok |-> TRUE, rb |-> rb, arena |-> arena]
    ELSE LET p == get_page_with_room(rb, arena, late)
             start_offset == rb.range.end % PAGE_SIZE
             len == Min(PAGE_SIZE - start_offset, Len(slice))
         IN  IF ~p.ok
             THEN [ok |-> FALSE, rb |-> p.rb, arena |-> p.arena]
             ELSE RollingBuffer_extend_from_slice(
                      [p.rb EXCEPT !.range.end = @ + len],
                      SubSeq(slice, len + 1, Len(slice)),
                      CopyToPage(p.arena, p.rb.page_ids[Len(p.rb.page_ids)], start_offset,
                                 SubSeq(slice, 1, len)),
                      late)

\* get_range_aux with the pages counted from the first page of all
RollingBuffer_get_range_aux_from_zero(rb, start, end) ==
    [ok |-> start >= rb.range.start /\ end <= rb.range.end
            /\ (end > start => start \div PAGE_SIZE <= Len(rb.page_ids)),
     buf |-> IF end <= start
             THEN [page_ids |-> <<>>, start_offset |-> 0, remaining_len |-> 0]
             ELSE [page_ids |-> SubSeq(rb.page_ids, start \div PAGE_SIZE + 1,
                                       Len(rb.page_ids)),
                   start_offset |-> start % PAGE_SIZE, remaining_len |-> end - start]]

\* RollingBuffer::get_range_aux: [ok, buf], buf the PagesBuf
RollingBuffer_get_range_aux(rb, start, end) ==
    IF ~(start >= rb.range.start /\ end <= rb.range.end)
    THEN [ok |-> FALSE, buf |-> [page_ids |-> <<>>, start_offset |-> 0, remaining_len |-> 0]]
    ELSE IF end <= start
    THEN [ok |-> TRUE, buf |-> [page_ids |-> <<>>, start_offset |-> 0, remaining_len |-> 0]]
    ELSE LET skip_pages == (start \div PAGE_SIZE) - (rb.range.start \div PAGE_SIZE)
         IN  [ok |-> skip_pages <= Len(rb.page_ids),
              buf |-> [page_ids |-> SubSeq(rb.page_ids, skip_pages + 1, Len(rb.page_ids)),
                       start_offset |-> start % PAGE_SIZE,
                       remaining_len |-> end - start]]

\* RollingBuffer::get_range(range_bounds)
RollingBuffer_get_range_pages(rb, lo, hi) ==
    RollingBuffer_get_range_aux(
        rb,
        CASE lo.kind = "Included" -> lo.v [] lo.kind = "Excluded" -> lo.v + 1 [] OTHER -> 0,
        CASE hi.kind = "Included" -> hi.v + 1 [] hi.kind = "Excluded" -> hi.v
          [] OTHER -> rb.range.end)

\* PagesBuf::chunk_with_lifetime, which is Buf::chunk
PagesBuf_chunk(buf, arena) ==
    IF buf.page_ids = <<>>
    THEN <<>>
    ELSE LET current_page == SubSeq(arena.pages[buf.page_ids[1] + 1].v,
                                    buf.start_offset + 1, PAGE_SIZE)
         IN  IF Len(current_page) > buf.remaining_len
             THEN SubSeq(current_page, 1, buf.remaining_len)
             ELSE current_page

PagesBuf_remaining(buf) == buf.remaining_len

\* the loop of PagesBuf::advance
RECURSIVE advance_loop(_, _, _)
advance_loop(buf, cnt, arena) ==
    IF cnt = 0 \/ buf.page_ids = <<>>
    THEN buf
    ELSE IF Len(PagesBuf_chunk(buf, arena)) > cnt
    THEN advance_loop([buf EXCEPT !.start_offset = @ + cnt, !.remaining_len = @ - cnt],
                      cnt, arena)
    ELSE advance_loop([buf EXCEPT !.remaining_len = @ - Len(PagesBuf_chunk(buf, arena)),
                                  !.start_offset = 0,
                                  !.page_ids = Tail(@)],
                      cnt - Len(PagesBuf_chunk(buf, arena)), arena)

\* PagesBuf::advance
PagesBuf_advance(buf, cnt, arena) == advance_loop(buf, Min(cnt, buf.remaining_len), arena)

\* to_vec of the tests: the chunks of buf, each one advanced over in whole
RECURSIVE to_vec(_, _)
to_vec(buf, arena) ==
    IF buf.remaining_len = 0 \/ PagesBuf_chunk(buf, arena) = <<>>
    THEN <<>>
    ELSE PagesBuf_chunk(buf, arena)
         \o to_vec(PagesBuf_advance(buf, Len(PagesBuf_chunk(buf, arena)), arena), arena)

\* ------------------------------------------------------------------------
\* SpecRollingBuffer: one RollingBuffer over an Arena of its own, as in the
\* tests of rolling_buffer.rs.  mem is [kind, arena, rb, ok, op, range,
\* bytes]: op is the last call, and range and bytes are what the last
\* get_range was asked and what to_vec made of the PagesBuf it returned.
\* history is every byte given to extend_from_slice, the byte of logical
\* offset k at k + 1.
\* ------------------------------------------------------------------------
\* the bytes appended at most
MaxBytes == 8
\* the length of a slice at most
MaxSlice == 4

BufferState(arena, rb, ok, op, start, end, bytes) ==
    [kind |-> "buffer", arena |-> arena, rb |-> rb, ok |-> ok, op |-> op,
     range |-> [start |-> start, end |-> end], bytes |-> bytes]

InitRollingBuffer ==
    /\ InitLog /\ NoClock /\ NoCodec /\ NoRecordLog
    /\ next_persist = [kind |-> "OnAppend", action |-> "Flush"]
    /\ mem = BufferState(Arena_default, RollingBuffer_new_pages, TRUE, "new", 0, 0, <<>>)
    /\ history = <<>>

\* rolling_buffer.extend_from_slice(slice, &mut arena), the bytes of the slice
\* the numbers from the one of its logical offset on
ExtendFromSlice(len, late) ==
    /\ mem.kind = "buffer" /\ mem.ok
    /\ Len(history) + len <= MaxBytes
    /\ \E slice \in {[i \in 1..len |-> Len(history) + i]} :
          /\ \E r \in {RollingBuffer_extend_from_slice(mem.rb, slice, mem.arena, late)} :
                mem' = BufferState(r.arena, r.rb, r.ok, "extend_from_slice", 0, 0, <<>>)
          /\ history' = history \o slice
    /\ MemOthers

\* rolling_buffer.truncate_up_to_excluded(new_start, &mut arena): the bytes
\* below new_start are dropped, and new_start is not below the start, whose
\* bytes were dropped before
TruncateUpToExcluded(new_start, late) ==
    /\ mem.kind = "buffer" /\ mem.ok
    /\ new_start >= mem.rb.range.start
    /\ \E r \in {RollingBuffer_truncate_up_to_excluded(mem.rb, new_start, mem.arena, late)} :
          mem' = BufferState(r.arena, r.rb, r.ok, "truncate_up_to_excluded", 0, 0, <<>>)
    /\ UNCHANGED history
    /\ MemOthers

\* rolling_buffer.clear(&mut arena)
ClearBuffer(late) ==
    /\ mem.kind = "buffer" /\ mem.ok
    /\ \E r \in {RollingBuffer_clear_pages(mem.rb, mem.arena, late)} :
          mem' = BufferState(r.arena, r.rb, r.ok, "clear", 0, 0, <<>>)
    /\ UNCHANGED history
    /\ MemOthers

\* to_vec(rolling_buffer.get_range(start..end, &arena))
GetRange(start, end) ==
    /\ mem.kind = "buffer" /\ mem.ok
    /\ \E g \in {RollingBuffer_get_range_pages(mem.rb, Included(start), Excluded(end))} :
          mem' = BufferState(mem.arena, mem.rb, g.ok, "get_range", start, end,
                             IF g.ok THEN to_vec(g.buf, mem.arena) ELSE <<>>)
    /\ UNCHANGED history
    /\ MemOthers

NextRollingBuffer ==
    \/ \E len \in 0..MaxSlice, late \in BOOLEAN : ExtendFromSlice(len, late)
    \/ \E new_start \in 0..MaxBytes, late \in BOOLEAN : TruncateUpToExcluded(new_start, late)
    \/ \E late \in BOOLEAN : ClearBuffer(late)
    \/ \E start, end \in 0..MaxBytes : GetRange(start, end)

SpecRollingBuffer == InitRollingBuffer /\ [][NextRollingBuffer]_vars

\* C38: after any calls of extend_from_slice and truncate_up_to_excluded(s),
\* get_range(a..b) with s <= a <= b <= end returns exactly the bytes that were
\* appended at the logical offsets a..b: the offsets are not renumbered by the
\* truncation, and a range over several pages comes back whole
C38_GetRangeReturnsAppended ==
    mem.kind = "buffer" /\ mem.op = "get_range"
    /\ mem.rb.range.start <= mem.range.start /\ mem.range.start <= mem.range.end
    /\ mem.range.end <= mem.rb.range.end
        => /\ mem.ok
           /\ mem.bytes = SubSeq(history, mem.range.start + 1, mem.range.end)

\* a range over three pages was read, from inside the first of them, after a
\* truncation inside that page
C38_Witness ==
    /\ mem.kind = "buffer" /\ mem.op = "get_range" /\ mem.ok
    /\ mem.rb.range.start % PAGE_SIZE # 0
    /\ mem.range.start > mem.rb.range.start
    /\ mem.range.start % PAGE_SIZE # 0
    /\ (mem.range.end - 1) \div PAGE_SIZE >= mem.range.start \div PAGE_SIZE + 2
    /\ Len(mem.bytes) = mem.range.end - mem.range.start

\* the pages of the buffer are pages of the arena in use, each one once
PagesInUse(rb, arena) ==
    /\ \A k \in DOMAIN rb.page_ids :
          /\ rb.page_ids[k] + 1 \in DOMAIN arena.pages
          /\ arena.pages[rb.page_ids[k] + 1].some
          /\ Count(rb.page_ids, rb.page_ids[k]) = 1
          /\ Count(arena.free_page_ids, rb.page_ids[k]) = 0
          /\ Count(arena.free_slots, rb.page_ids[k]) = 0

\* C39: after every extend_from_slice, truncate_up_to_excluded and clear the
\* buffer holds exactly the pages its range needs, num_pages_required(range),
\* none for an empty range; the pages a truncation vacates are released to the
\* arena, which counts as used the pages of the buffer only, and none after
\* clear
C39_HoldsPagesRequired ==
    mem.kind = "buffer" /\ mem.ok =>
        /\ Len(mem.rb.page_ids) = num_pages_required(mem.rb.range)
        /\ mem.rb.range.start >= mem.rb.range.end => mem.rb.page_ids = <<>>
        /\ mem.rb.range.start < mem.rb.range.end =>
              Len(mem.rb.page_ids)
                 = (mem.rb.range.end - 1) \div PAGE_SIZE
                      - mem.rb.range.start \div PAGE_SIZE + 1
        /\ PagesInUse(mem.rb, mem.arena)
        /\ Arena_num_used_pages(mem.arena) = Len(mem.rb.page_ids)
        /\ SlotsInOneState(mem.arena, {mem.rb.page_ids[k] : k \in DOMAIN mem.rb.page_ids})
        /\ mem.op = "clear" =>
              mem.rb.page_ids = <<>> /\ Arena_num_used_pages(mem.arena) = 0

\* a truncation has vacated two pages and kept one, and the arena holds the
\* two as free or not allocated
C39_Witness ==
    /\ mem.kind = "buffer" /\ mem.ok /\ mem.op = "truncate_up_to_excluded"
    /\ Len(mem.rb.page_ids) = 1
    /\ mem.rb.range.start >= 2 * PAGE_SIZE
    /\ Len(mem.arena.free_page_ids) + Len(mem.arena.free_slots) >= 2
    /\ Len(mem.arena.free_slots) >= 1

\* ------------------------------------------------------------------------
\* SpecPagesBuf: the PagesBuf that get_range returns on a RollingBuffer of
\* len bytes, the byte of logical offset k being k + 1, and the calls of
\* advance on it.  mem is [kind, arena, rb, buf, op]; history is the bytes of
\* the range that were not skipped yet.
\* ------------------------------------------------------------------------
\* the buffer of len bytes, extended in one call
FilledBuffer(len) ==
    RollingBuffer_extend_from_slice(RollingBuffer_new_pages, [i \in 1..len |-> i],
                                    Arena_default, FALSE)

InitPagesBuf ==
    /\ InitLog /\ NoClock /\ NoCodec /\ NoRecordLog
    /\ next_persist = [kind |-> "OnAppend", action |-> "Flush"]
    /\ \E len \in 0..MaxBytes :
          mem = [kind |-> "pagesbuf", arena |-> FilledBuffer(len).arena,
                 rb |-> FilledBuffer(len).rb,
                 buf |-> [page_ids |-> <<>>, start_offset |-> 0, remaining_len |-> 0],
                 op |-> "new"]
    /\ history = <<>>

\* rolling_buffer.get_range(start..end, &arena)
GetPagesBuf(start, end) ==
    /\ mem.kind = "pagesbuf"
    /\ start <= end /\ end <= mem.rb.range.end
    /\ \E g \in {RollingBuffer_get_range_pages(mem.rb, Included(start), Excluded(end))} :
          /\ g.ok
          /\ mem' = [mem EXCEPT !.buf = g.buf, !.op = "get_range"]
    /\ history' = [i \in 1..(end - start) |-> start + i]
    /\ MemOthers

\* buf.advance(cnt), cnt <= buf.remaining()
Advance(cnt) ==
    /\ mem.kind = "pagesbuf" /\ mem.op # "new"
    /\ cnt <= PagesBuf_remaining(mem.buf)
    /\ mem' = [mem EXCEPT !.buf = PagesBuf_advance(mem.buf, cnt, mem.arena),
                          !.op = "advance"]
    /\ history' = SubSeq(history, cnt + 1, Len(history))
    /\ MemOthers

NextPagesBuf ==
    \/ \E start, end \in 0..MaxBytes : GetPagesBuf(start, end)
    \/ \E cnt \in 0..MaxBytes : Advance(cnt)

SpecPagesBuf == InitPagesBuf /\ [][NextPagesBuf]_vars

\* C40: advance(n) with n <= remaining() takes exactly n off remaining(), and
\* the next chunk() starts at the byte after the n bytes skipped, whether n is
\* less than the chunk or goes over the end of pages
C40_AdvanceSkipsExactly ==
    mem.kind = "pagesbuf" =>
        /\ PagesBuf_remaining(mem.buf) = Len(history)
        /\ history # <<>> =>
              /\ PagesBuf_chunk(mem.buf, mem.arena) # <<>>
              /\ PagesBuf_chunk(mem.buf, mem.arena)
                    = SubSeq(history, 1, Len(PagesBuf_chunk(mem.buf, mem.arena)))

====
